---- MODULE Spec2Model ----
(***************************************************************************)
(* The CycloneDX marshaler of the report: Marshal / MarshalReport build    *)
(* the component graph of a Report (rootComponent, marshalResult,          *)
(* marshalPackages, marshalPackage, resultComponent, pkgComponent,         *)
(* filterProperties, toCoreComponent).                                     *)
(*                                                                         *)
(* Components are Go pointers: they live in `heap`, a sequence of          *)
(* Component records, and a pointer is an index into it (Nil is the nil    *)
(* pointer).  Two pointers are the same instance iff they are equal.       *)
(*                                                                         *)
(* The lock-file parsers: Parse of the gradle lockfile parser              *)
(* (LockfileSpec) and Parse and libraryName of the swift Package.resolved  *)
(* parser (SwiftSpec).  Their strings are sequences of pieces, so that     *)
(* trimming, splitting and comparing are the operations the code calls.    *)
(***************************************************************************)
EXTENDS Integers, Sequences, FiniteSets, TLC

\* ------------------------------------------------------------------ bounds
\* Packages of one Result in the dependency-graph inputs.
MaxPkgs == 3
\* Size of the dependency graph of one Result: its packages plus its
\* DependsOn entries, plus one when its packages have no ID.
MaxSize == 5
\* Results of one Report in the report-level inputs.
MaxResults == 2
\* Packages of one Result in the package-level inputs.
MaxDetailPkgs == 2
\* Length of the property lists filterProperties is called with.
MaxProps == 3

\* ------------------------------------------------------- program constants
Nil == 0

PropertySchemaVersion == "SchemaVersion"
PropertyType == "Type"
PropertyClass == "Class"
PropertySize == "Size"
PropertyImageID == "ImageID"
PropertyRepoDigest == "RepoDigest"
PropertyDiffID == "DiffID"
PropertyRepoTag == "RepoTag"
PropertyPkgID == "PkgID"
PropertyPkgType == "PkgType"
PropertySrcName == "SrcName"
PropertySrcVersion == "SrcVersion"
PropertySrcRelease == "SrcRelease"
PropertySrcEpoch == "SrcEpoch"
PropertyModularitylabel == "Modularitylabel"
PropertyFilePath == "FilePath"
PropertyLayerDigest == "LayerDigest"
PropertyLayerDiffID == "LayerDiffID"

\* cdx.ComponentType values used by the marshaler ("" is the unset kind).
ComponentTypeContainer == "container"
ComponentTypeOS == "operating-system"
ComponentTypeApplication == "application"
ComponentTypeLibrary == "library"

\* ftypes.TargetType values named by marshalResult.
NodePkg == "node-pkg"
PythonPkg == "python-pkg"
GemSpec == "gemspec"
Jar == "jar"
CondaPkg == "conda-pkg"

\* types.ResultClass values named by marshalResult and resultComponent.
ClassOSPkg == "os-pkgs"
ClassLangPkg == "lang-pkgs"

\* ftypes.ArtifactType values named by rootComponent.
ArtifactContainerImage == "container_image"
ArtifactVM == "vm"
ArtifactFilesystem == "filesystem"
ArtifactRepository == "repository"
ArtifactCycloneDX == "cyclonedx"

\* packageurl types named by pkgComponent, and the type of an image purl.
TypeMaven == "maven"
TypeNPM == "npm"
TypeOCI == "oci"

\* The property namespace of this tool, as the leading segments of a name.
Namespace == <<"aquasecurity:", "trivy:">>

\* A missing pointer-valued field (no PURL, no OS).
None == [none |-> TRUE]

\* ------------------------------------------------------------ conversions
Digits == <<"0", "1", "2", "3", "4", "5", "6", "7", "8", "9">>

RECURSIVE Itoa(_)
\* strconv.Itoa / strconv.FormatInt(n, 10).
Itoa(n) ==
    IF n < 0 THEN "-" \o Itoa(0 - n)
    ELSE IF n < 10 THEN Digits[n + 1]
    ELSE Itoa(n \div 10) \o Digits[(n % 10) + 1]

RECURSIVE Join(_, _)
\* strings.Join(elems, sep).
Join(elems, sep) ==
    IF elems = <<>> THEN ""
    ELSE IF Len(elems) = 1 THEN elems[1]
    ELSE elems[1] \o sep \o Join(Tail(elems), sep)

Range(s) == {s[i] : i \in DOMAIN s}

\* core.Property
Property(namespace, name, value) == [Namespace |-> namespace, Name |-> name, Value |-> value]

\* As KeepProperty, but the value "0" is dropped whatever the name.
KeepPropertyNoZero(property) ==
    ~(property.Value = "" \/ property.Value = "0")

\* The predicate of filterProperties: the properties that stay.
KeepProperty(property) ==
    ~(property.Value = "" \/ (property.Name = PropertySrcEpoch /\ property.Value = "0"))

RECURSIVE filterProperties(_)
\* lo.Filter(props, ...): the properties satisfying the predicate, in order.
filterProperties(props) ==
    IF props = <<>> THEN <<>>
    ELSE IF KeepProperty(props[1]) THEN <<props[1]>> \o filterProperties(Tail(props))
    ELSE filterProperties(Tail(props))

\* core.Component as the marshaler fills it.
Component(type, name, group, version, packageURL, supplier, licenses, hashes, properties, vulnerabilities) ==
    [Type |-> type, Name |-> name, Group |-> group, Version |-> version,
     PackageURL |-> packageURL, Supplier |-> supplier, Licenses |-> licenses,
     Hashes |-> hashes, Properties |-> properties,
     Vulnerabilities |-> vulnerabilities, Components |-> <<>>]
\* ----------------------------------------------- external collaborators
\* purl.WithPath: the identifier extended with the file path; nil stays nil.
WithPath(pu, filePath) == IF pu = None THEN None ELSE [pu EXCEPT !.FilePath = filePath]

\* The repo digests from which an image identifier can be constructed.
WellFormedDigests == {"alpine@sha256:d1", "alpine@sha256:d2"}

\* purl.New(purl.TypeOCI, metadata, ftypes.Package{}): no identifier without
\* a repo digest, an error when the first repo digest is malformed.
NewOCIPurl(metadata) ==
    IF metadata.RepoDigests = <<>> THEN [purl |-> None, err |-> FALSE]
    ELSE IF metadata.RepoDigests[1] \notin WellFormedDigests THEN [purl |-> None, err |-> TRUE]
    ELSE [purl |-> [Type |-> TypeOCI, Namespace |-> "", Name |-> "alpine", Version |-> metadata.RepoDigests[1], FilePath |-> ""], err |-> FALSE]

\* The serialized identifiers that parse, with their parsed form.
SerializedPurls == {"pkg:npm/%40acme/lib@2.3.0", "pkg:oci/alpine@sha256:d1"}

ParsedPurl(str) ==
    IF str = "pkg:npm/%40acme/lib@2.3.0"
    THEN [Type |-> TypeNPM, Namespace |-> "@acme", Name |-> "lib", Version |-> "2.3.0", FilePath |-> ""]
    ELSE [Type |-> TypeOCI, Namespace |-> "", Name |-> "alpine", Version |-> "sha256:d1", FilePath |-> ""]

\* purl.FromString: the parsed identifier, or an error.
FromString(str) ==
    IF str \in SerializedPurls THEN [purl |-> ParsedPurl(str), err |-> FALSE]
    ELSE [purl |-> None, err |-> TRUE]

\* utils.FormatVersion: the version of the derived name@version key.
FormatVersion(pkg) == pkg.Version

\* ftypes.Packages.ParentDeps: for every ID named in a DependsOn list, the
\* (indices of the) packages that name it.
ParentDeps(packages) ==
    [d \in UNION {Range(packages[i].DependsOn) : i \in DOMAIN packages} |->
        {i \in DOMAIN packages : d \in Range(packages[i].DependsOn)}]

\* make(map[...]...): a Go map with no key.
EmptyMap == [k \in {} |-> Nil]

\* map[key] = value
MapPut(map, key, value) == [k \in DOMAIN map \cup {key} |-> IF k = key THEN value ELSE map[k]]

\* A Go map read: the zero value for a missing key.
Lookup(map, key, zero) == IF key \in DOMAIN map THEN map[key] ELSE zero

\* ----------------------------------------------------- marshalPackages maps
\* As VulnKey, but a record with no package ID has no name@version key.
VulnKeyIDOnly(v) == v.PkgID

\* The key of lo.GroupBy over result.Vulnerabilities.
VulnKey(v) == IF v.PkgID = "" THEN v.PkgName \o "@" \o v.InstalledVersion ELSE v.PkgID

RECURSIVE VulnsOf(_, _)
\* vulns[pkgID]: the records of the group, in input order (nil when none).
VulnsOf(vulnerabilities, pkgID) ==
    IF vulnerabilities = <<>> THEN <<>>
    ELSE IF VulnKey(vulnerabilities[1]) = pkgID
         THEN <<vulnerabilities[1]>> \o VulnsOf(Tail(vulnerabilities), pkgID)
         ELSE VulnsOf(Tail(vulnerabilities), pkgID)

\* The key of lo.SliceToMap over result.Packages.
PkgKey(pkg) == IF pkg.ID = "" THEN pkg.Name \o "@" \o FormatVersion(pkg) ELSE pkg.ID

\* pkgs: the package map; of two packages with one key the later one stays.
PkgMap(result) ==
    [k \in {PkgKey(result.Packages[i]) : i \in DOMAIN result.Packages} |->
        LET last == CHOOSE i \in DOMAIN result.Packages :
                        /\ PkgKey(result.Packages[i]) = k
                        /\ \A j \in DOMAIN result.Packages : PkgKey(result.Packages[j]) = k => j <= i
        IN  [Package |-> result.Packages[last], Type |-> result.Type,
             Vulnerabilities |-> VulnsOf(result.Vulnerabilities, k)]]

\* ------------------------------------------------------------ pkgComponent
PkgName(pkg) ==
    LET pu == pkg.Package.PURL
    IN  IF pu # None /\ (pu.Type = TypeMaven \/ pu.Type = TypeNPM) THEN pu.Name ELSE pkg.Package.Name

\* As PkgGroup, but the namespace of an identifier of any type is taken.
PkgGroupAnyType(pkg) ==
    LET pu == pkg.Package.PURL
    IN  IF pu # None THEN pu.Namespace ELSE ""

PkgGroup(pkg) ==
    LET pu == pkg.Package.PURL
    IN  IF pu # None /\ (pu.Type = TypeMaven \/ pu.Type = TypeNPM) THEN pu.Namespace ELSE ""

PkgVersion(pkg) ==
    LET pu == pkg.Package.PURL
    IN  IF pu # None THEN pu.Version ELSE pkg.Package.Version

PkgProperties(pkg) ==
    << Property("", PropertyPkgID, pkg.Package.ID),
       Property("", PropertyPkgType, pkg.Type),
       Property("", PropertyFilePath, pkg.Package.FilePath),
       Property("", PropertySrcName, pkg.Package.SrcName),
       Property("", PropertySrcVersion, pkg.Package.SrcVersion),
       Property("", PropertySrcRelease, pkg.Package.SrcRelease),
       Property("", PropertySrcEpoch, Itoa(pkg.Package.SrcEpoch)),
       Property("", PropertyModularitylabel, pkg.Package.Modularitylabel),
       Property("", PropertyLayerDigest, pkg.Package.Layer.Digest),
       Property("", PropertyLayerDiffID, pkg.Package.Layer.DiffID) >>

\* pkgComponent: the Library component of a package; it has no failing path.
pkgComponent(pkg) ==
    [component |-> Component(ComponentTypeLibrary, PkgName(pkg), PkgGroup(pkg), PkgVersion(pkg),
                             WithPath(pkg.Package.PURL, pkg.Package.FilePath),
                             pkg.Package.Maintainer, pkg.Package.Licenses,
                             IF pkg.Package.Digest = "" THEN <<>> ELSE <<pkg.Package.Digest>>,
                             filterProperties(PkgProperties(pkg)), pkg.Vulnerabilities),
     isNil |-> FALSE, err |-> FALSE]

\* --------------------------------------------------------- resultComponent
\* As resultComponent, but the detected OS is not looked at.
resultComponentNoOS(r, osFound) ==
    LET properties == << Property("", PropertyType, r.Type), Property("", PropertyClass, r.Class) >>
        type == IF r.Class = ClassOSPkg THEN ComponentTypeOS
                ELSE IF r.Class = ClassLangPkg THEN ComponentTypeApplication ELSE ""
    IN  Component(type, r.Target, "", "", None, "", <<>>, <<>>, properties, <<>>)

resultComponent(r, osFound) ==
    LET properties == << Property("", PropertyType, r.Type), Property("", PropertyClass, r.Class) >>
        isOS == r.Class = ClassOSPkg
        name == IF isOS /\ osFound # None THEN osFound.Family ELSE r.Target
        version == IF isOS /\ osFound # None THEN osFound.Name ELSE ""
        type == IF isOS THEN ComponentTypeOS
                ELSE IF r.Class = ClassLangPkg THEN ComponentTypeApplication ELSE ""
    IN  Component(type, name, "", version, None, "", <<>>, <<>>, properties, <<>>)

\* --------------------------------------------------------- toCoreComponent
HasPrefix(name, prefix) ==
    Len(name) >= Len(prefix) /\ SubSeq(name, 1, Len(prefix)) = prefix

TrimPrefix(name, prefix) ==
    IF HasPrefix(name, prefix) THEN SubSeq(name, Len(prefix) + 1, Len(name)) ELSE name

\* One property of the metadata component; names are sequences of segments.
CoreProperty(prop) ==
    IF HasPrefix(prop.Name, Namespace)
    THEN Property(Join(Namespace, ""), Join(TrimPrefix(prop.Name, Namespace), ""), prop.Value)
    ELSE Property("", Join(prop.Name, ""), prop.Value)

toCoreComponent(c) ==
    LET props == [i \in DOMAIN c.Properties |-> CoreProperty(c.Properties[i])]
        parsed == IF c.PackageURL # "" THEN FromString(c.PackageURL) ELSE [purl |-> None, err |-> FALSE]
    IN  IF parsed.err
        THEN [isNil |-> TRUE, err |-> TRUE]
        ELSE [component |-> Component(c.Type, c.Name, c.Group, "", parsed.purl, "", <<>>, <<>>, props, <<>>),
              isNil |-> FALSE, err |-> FALSE]

\* ----------------------------------------------------------- rootComponent
\* As RootType, but a VM image is taken as an application.
RootTypeVMApplication(r) ==
    IF r.ArtifactType = ArtifactContainerImage THEN ComponentTypeContainer
    ELSE IF r.ArtifactType \in {ArtifactVM, ArtifactFilesystem, ArtifactRepository} THEN ComponentTypeApplication
    ELSE ""

RootType(r) ==
    IF r.ArtifactType \in {ArtifactContainerImage, ArtifactVM} THEN ComponentTypeContainer
    ELSE IF r.ArtifactType \in {ArtifactFilesystem, ArtifactRepository} THEN ComponentTypeApplication
    ELSE ""

\* As RootProperties, but the image ID is attached for every artifact type.
RootPropertiesImageIDAlways(r) ==
    <<Property("", PropertySchemaVersion, Itoa(r.SchemaVersion)),
      Property("", PropertyImageID, r.Metadata.ImageID)>>
    \o (IF r.Metadata.Size # 0
        THEN <<Property("", PropertySize, Itoa(r.Metadata.Size))>> ELSE <<>>)
    \o (IF Len(r.Metadata.RepoDigests) > 0
        THEN <<Property("", PropertyRepoDigest, Join(r.Metadata.RepoDigests, ","))>> ELSE <<>>)
    \o (IF Len(r.Metadata.DiffIDs) > 0
        THEN <<Property("", PropertyDiffID, Join(r.Metadata.DiffIDs, ","))>> ELSE <<>>)
    \o (IF Len(r.Metadata.RepoTags) > 0
        THEN <<Property("", PropertyRepoTag, Join(r.Metadata.RepoTags, ","))>> ELSE <<>>)

RootProperties(r) ==
    <<Property("", PropertySchemaVersion, Itoa(r.SchemaVersion))>>
    \o (IF r.ArtifactType = ArtifactContainerImage
        THEN <<Property("", PropertyImageID, r.Metadata.ImageID)>> ELSE <<>>)
    \o (IF r.Metadata.Size # 0
        THEN <<Property("", PropertySize, Itoa(r.Metadata.Size))>> ELSE <<>>)
    \o (IF Len(r.Metadata.RepoDigests) > 0
        THEN <<Property("", PropertyRepoDigest, Join(r.Metadata.RepoDigests, ","))>> ELSE <<>>)
    \o (IF Len(r.Metadata.DiffIDs) > 0
        THEN <<Property("", PropertyDiffID, Join(r.Metadata.DiffIDs, ","))>> ELSE <<>>)
    \o (IF Len(r.Metadata.RepoTags) > 0
        THEN <<Property("", PropertyRepoTag, Join(r.Metadata.RepoTags, ","))>> ELSE <<>>)

\* As rootComponent, but the external document goes on to the artifact-level
\* properties like any other artifact.
rootComponentNoShortCircuit(r) ==
    LET oci == IF r.ArtifactType = ArtifactContainerImage
               THEN NewOCIPurl(r.Metadata) ELSE [purl |-> None, err |-> FALSE]
        doc == IF r.ArtifactType = ArtifactCycloneDX
               THEN toCoreComponent(r.CycloneDX.Metadata.Component) ELSE [isNil |-> TRUE, err |-> FALSE]
    IN  IF oci.err \/ doc.err THEN [isNil |-> TRUE, err |-> TRUE]
        ELSE IF r.ArtifactType = ArtifactCycloneDX
        THEN [component |-> [doc.component EXCEPT !.Properties = @ \o filterProperties(RootProperties(r))],
              isNil |-> FALSE, err |-> FALSE]
        ELSE [component |-> Component(RootType(r), r.ArtifactName, "", "", oci.purl, "", <<>>, <<>>,
                                      filterProperties(RootProperties(r)), <<>>),
              isNil |-> FALSE, err |-> FALSE]

\* As rootComponent, but a failure to construct or parse the identifier is
\* dropped and the root is built without the identifier.
rootComponentDropsError(r) ==
    IF r.ArtifactType = ArtifactCycloneDX
    THEN LET c == r.CycloneDX.Metadata.Component
         IN  IF toCoreComponent(c).err THEN toCoreComponent([c EXCEPT !.PackageURL = ""])
             ELSE toCoreComponent(c)
    ELSE [component |-> Component(RootType(r), r.ArtifactName, "", "",
                                  IF r.ArtifactType = ArtifactContainerImage
                                  THEN NewOCIPurl(r.Metadata).purl ELSE None,
                                  "", <<>>, <<>>, filterProperties(RootProperties(r)), <<>>),
          isNil |-> FALSE, err |-> FALSE]

rootComponent(r) ==
    LET oci == IF r.ArtifactType = ArtifactContainerImage
               THEN NewOCIPurl(r.Metadata) ELSE [purl |-> None, err |-> FALSE]
    IN  IF oci.err THEN [isNil |-> TRUE, err |-> TRUE]
        ELSE IF r.ArtifactType = ArtifactCycloneDX THEN toCoreComponent(r.CycloneDX.Metadata.Component)
        ELSE [component |-> Component(RootType(r), r.ArtifactName, "", "", oci.purl, "", <<>>, <<>>,
                                      filterProperties(RootProperties(r)), <<>>),
              isNil |-> FALSE, err |-> FALSE]
\* ------------------------------------------------------------------ inputs
\* ftypes.Package with every field at its zero value but ID, Name, Version.
BasePkg(name, version) ==
    [ID |-> name \o "@" \o version, Name |-> name, Version |-> version,
     Indirect |-> FALSE, DependsOn |-> <<>>, PURL |-> None, FilePath |-> "",
     SrcName |-> "", SrcVersion |-> "", SrcRelease |-> "", SrcEpoch |-> 0,
     Modularitylabel |-> "", Layer |-> [Digest |-> "", DiffID |-> ""],
     Maintainer |-> "", Licenses |-> <<>>, Digest |-> ""]

PkgNames == <<"a", "b", "c", "d", "e", "f">>

\* An ID no package of a Result has: the target of a dangling edge.
DanglingID == "x@1"

\* The ID an edge target names: package t of the Result, or the dangling ID.
TargetID(n, t) == IF t <= n THEN PkgNames[t] \o "@1" ELSE DanglingID

\* The edges of a Result of n packages: at most m pairs <<owner, target>>,
\* grouped by owner; their order within one owner is the DependsOn order.
EdgeLists(n, m) ==
    {e \in UNION {[1..k -> (1..n) \X (1..(n + 1))] : k \in 0..m} :
        \A i \in 1..(Len(e) - 1) : e[i][1] <= e[i + 1][1]}

RECURSIVE DepsOf(_, _, _)
DepsOf(e, n, owner) ==
    IF e = <<>> THEN <<>>
    ELSE IF e[1][1] = owner THEN <<TargetID(n, e[1][2])>> \o DepsOf(Tail(e), n, owner)
    ELSE DepsOf(Tail(e), n, owner)

GraphPackages(n, withID, indirect, e) ==
    [i \in 1..n |-> [BasePkg(PkgNames[i], "1") EXCEPT
                        !.ID = IF withID THEN @ ELSE "",
                        !.Indirect = indirect[i],
                        !.DependsOn = DepsOf(e, n, i)]]

EmptyMetadata ==
    [ImageID |-> "", Size |-> 0, RepoDigests |-> <<>>, DiffIDs |-> <<>>,
     RepoTags |-> <<>>, OS |-> None]

Result(target, type, class, packages, vulnerabilities) ==
    [Target |-> target, Type |-> type, Class |-> class, Packages |-> packages,
     Vulnerabilities |-> vulnerabilities]

Report(name, type, metadata, results, cyclonedx) ==
    [SchemaVersion |-> 2, ArtifactName |-> name, ArtifactType |-> type,
     Metadata |-> metadata, Results |-> results, CycloneDX |-> cyclonedx]

\* A Report of a filesystem scan with one lock-file Result of n packages,
\* with natural IDs or with none, with the edges e.
GraphReport(n, withID, indirect, e) ==
    Report("/app", ArtifactFilesystem, EmptyMetadata,
           <<Result("/app/package-lock.json", "npm", ClassLangPkg,
                    GraphPackages(n, withID, indirect, e), <<>>)>>, None)

ImageMetadata ==
    [ImageID |-> "sha256:img", Size |-> 1024, RepoDigests |-> <<"alpine@sha256:d1">>,
     DiffIDs |-> <<"sha256:l1", "sha256:l2">>, RepoTags |-> <<"alpine:3.15">>,
     OS |-> [Family |-> "alpine", Name |-> "3.15"]]

Metadatas ==
    { ImageMetadata, EmptyMetadata,
      [ImageMetadata EXCEPT !.RepoDigests = <<"malformed", "alpine@sha256:d1">>, !.OS = None] }

\* The metadata component of an external CycloneDX document.
BOMComponent(purl) ==
    [Name |-> "ext-app", Group |-> "ext", PackageURL |-> purl, Type |-> ComponentTypeApplication,
     Properties |-> << [Name |-> <<"aquasecurity:", "trivy:", "SchemaVersion">>, Value |-> "2"],
                       [Name |-> <<"vendor:", "build">>, Value |-> "42"] >>]

\* The same component with a property that has no value.
BOMComponentEmptyValue ==
    [BOMComponent("") EXCEPT !.Properties = Append(@, [Name |-> <<"vendor:", "note">>, Value |-> ""])]

CycloneDXs ==
    {[Metadata |-> [Component |-> BOMComponent(purl)]] : purl \in {"", "pkg:npm/%40acme/lib@2.3.0", "npm/lib"}}
        \cup {[Metadata |-> [Component |-> BOMComponentEmptyValue]]}

Bash == [BasePkg("bash", "4.12") EXCEPT !.SrcName = "bash", !.SrcVersion = "4.12", !.Layer = [Digest |-> "sha256:ld", DiffID |-> "sha256:l1"]]

Express == [BasePkg("express", "4.17.3") EXCEPT !.DependsOn = <<"accepts@1.3.8">>]

Accepts == [BasePkg("accepts", "1.3.8") EXCEPT !.Indirect = TRUE]

Lib == [BasePkg("lib", "2.3.0") EXCEPT !.FilePath = "app/lib.jar"]

\* The Results a report-level input is made of: floating ones of every
\* ecosystem and of several classes, an OS one, a lock-file one, and ones of
\* another class.
ResultPool ==
    { Result("", NodePkg, ClassLangPkg, <<Lib>>, <<>>),
      Result("", PythonPkg, ClassOSPkg, <<Express, Accepts>>, <<>>),
      Result("", GemSpec, ClassLangPkg, <<>>, <<>>),
      Result("", Jar, "custom", <<Lib>>, <<>>),
      Result("", CondaPkg, ClassLangPkg, <<Lib>>, <<>>),
      Result("alpine:3.15 (alpine 3.15)", "alpine", ClassOSPkg, <<Bash>>, <<>>),
      Result("/app/package-lock.json", "npm", ClassLangPkg, <<Express, Accepts>>, <<>>),
      Result("Dockerfile", "dockerfile", "config", <<>>, <<>>),
      Result("custom-target", "npm", "custom", <<Lib>>, <<>>) }

ResultLists == UNION {[1..k -> ResultPool] : k \in 0..MaxResults}

\* The Reports over every dependency graph within the bounds; with
\* allDirect, only those in which no package is marked Indirect, so that
\* marshalPackages walks from every package.
IsGraphOfSize(r, maxPkgs, maxSize, allDirect) ==
    \E n \in 1..maxPkgs, withID \in BOOLEAN :
        \E e \in EdgeLists(n, maxSize - n - (IF withID THEN 0 ELSE 1)),
           indirect \in {f \in [1..n -> BOOLEAN] : allDirect => \A i \in 1..n : ~f[i]} :
              r = GraphReport(n, withID, indirect, e)

IsGraphInput(r, allDirect) == IsGraphOfSize(r, MaxPkgs, MaxSize, allDirect)

\* The Reports of the artifact types, with and without image metadata and
\* OS info, over the lists of pool Results.
IsArtifactInput(r, types) ==
    \E type \in types, metadata \in Metadatas, results \in ResultLists :
        r = Report("alpine:3.15", type, metadata, results, None)

\* The Reports that are an external CycloneDX document.
IsPassthroughInput(r) ==
    \E results \in ResultLists, cyclonedx \in CycloneDXs :
        r = Report("bom.json", ArtifactCycloneDX, EmptyMetadata, results, cyclonedx)

\* A structured package identifier.
PackageURL(type, namespace, name, version) ==
    [Type |-> type, Namespace |-> namespace, Name |-> name, Version |-> version, FilePath |-> ""]

\* Packages with and without a structured identifier, of the two ecosystems
\* with a grouping namespace and of others, with source-package fields.
MavenLib ==
    [BasePkg("com.acme:lib", "2.3") EXCEPT
        !.PURL = PackageURL(TypeMaven, "com.acme", "lib", "2.3.0"), !.FilePath = "app/lib.jar",
        !.Digest = "sha1:ab", !.Licenses = <<"MIT">>]

ScopedLib ==
    [BasePkg("@acme/lib", "^2.3.0") EXCEPT !.PURL = PackageURL(TypeNPM, "@acme", "lib", "2.3.0")]

GoLib ==
    [BasePkg("github.com/acme/lib", "v2.3.0") EXCEPT
        !.ID = "", !.PURL = PackageURL("golang", "github.com/acme", "lib", "2.3.0")]

LocalLib == [BasePkg("local", "0") EXCEPT !.ID = ""]

Vim ==
    [BasePkg("vim", "8.2") EXCEPT
        !.SrcName = "vim", !.SrcVersion = "8.2", !.SrcRelease = "0", !.SrcEpoch = 5,
        !.Maintainer = "alpine"]

DetailPkgs == {MavenLib, ScopedLib, GoLib, LocalLib, Vim, Bash}

\* Lists of at most MaxDetailPkgs different packages.
DetailLists ==
    {l \in UNION {[1..k -> DetailPkgs] : k \in 1..MaxDetailPkgs} :
        \A i, j \in DOMAIN l : i # j => l[i] # l[j]}

\* types.DetectedVulnerability
Vulnerability(id, pkgID, pkgName, installedVersion) ==
    [VulnerabilityID |-> id, PkgID |-> pkgID, PkgName |-> pkgName, InstalledVersion |-> installedVersion]

\* Records with a package ID and with none, of packages with a natural ID
\* and with none, and of a package that is not in the Result.
VulnLists ==
    { <<>>,
      << Vulnerability("CVE-1", "com.acme:lib@2.3", "", ""),
         Vulnerability("CVE-2", "", "vim", "8.2"),
         Vulnerability("CVE-3", "com.acme:lib@2.3", "com.acme:lib", "2.3") >>,
      << Vulnerability("CVE-4", "", "github.com/acme/lib", "v2.3.0"),
         Vulnerability("CVE-5", "local@0", "local", "0"),
         Vulnerability("CVE-6", "", "@acme/lib", "^2.3.0") >>,
      << Vulnerability("CVE-7", "gone@1", "gone", "1"),
         Vulnerability("CVE-8", "", "bash", "4.12"),
         Vulnerability("CVE-9", "", "vim", "9.0") >> }

\* The Reports with one lock-file Result of detailed packages and the
\* vulnerability records detected for it.
IsPackageInput(r) ==
    \E packages \in DetailLists, vulnerabilities \in VulnLists :
        r = Report("/app", ArtifactRepository, EmptyMetadata,
                   <<Result("/app/pom.xml", "pom", ClassLangPkg, packages, vulnerabilities)>>, None)

\* ------------------------------------------------------------------- state
VARIABLES
    report,            \* the Report being marshaled (input, never assigned again)
    pc,                \* the position of the call: of Marshal, or the function called
    heap,              \* the Components allocated so far; a pointer is an index
    origin,            \* for each Component: the Result and package it was built for
    root,              \* MarshalReport: root
    err,               \* MarshalReport: the returned error (TRUE) or nil (FALSE)
    bom,               \* Marshal: the returned BOM (the root it was built of) or Nil
    ri,                \* MarshalReport: index of the Result of the loop
    appComponent,      \* marshalResult: the intermediate node, Nil when there is none
    pkgs,              \* marshalPackages: the package map
    parents,           \* marshalPackages: the parent map
    todo,              \* marshalPackages: the keys of pkgs the range loop has not yet yielded
    directComponents,  \* marshalPackages: directComponents
    components,        \* marshalPackage: the memo of the current root's walk
    stack,             \* marshalPackage: the active calls, innermost last
    first,             \* the graph of an earlier call of Marshal on the same Report
    props,             \* filterProperties: props, the argument
    filtered,          \* filterProperties: what the calls made so far returned
    text,              \* gradle Parse: the lines of r, as the scanner yields them
    lineNum,           \* gradle Parse: lineNum
    lockFile,          \* swift Parse: what r decodes to, lockFile
    pinNum,            \* swift Parse: index of the pin of the loop
    libs,              \* Parse: libs
    parsed             \* Parse: what the call returned

vars == <<report, pc, heap, origin, root, err, bom, ri, appComponent, pkgs, parents, todo, directComponents, components, stack, first, props, filtered, text, lineNum, lockFile, pinNum, libs, parsed>>

\* The variables of a call of Marshal.
marshalVars == <<report, pc, heap, origin, root, err, bom, ri, appComponent, pkgs, parents, todo, directComponents, components, stack>>

\* The variables a call of Marshal does not touch.
otherVars == <<first, props, filtered, text, lineNum, lockFile, pinNum, libs, parsed>>

\* The variables of a call of Parse, of either parser.
parseVars == <<text, lineNum, lockFile, pinNum, libs, parsed>>

resultVars == <<appComponent, pkgs, parents, todo, directComponents, components, stack>>

\* Marshal has been called and has not yet run.
Called ==
    /\ pc = "MarshalReport"
    /\ heap = <<>>
    /\ origin = <<>>
    /\ root = Nil
    /\ err = FALSE
    /\ bom = Nil
    /\ ri = 0
    /\ appComponent = Nil
    /\ pkgs = EmptyMap
    /\ parents = EmptyMap
    /\ todo = {}
    /\ directComponents = <<>>
    /\ components = EmptyMap
    /\ stack = <<>>

\* No parser is called.
NoParse ==
    /\ text = <<>>
    /\ lineNum = 0
    /\ lockFile = None
    /\ pinNum = 0
    /\ libs = <<>>
    /\ parsed = None

\* No earlier call of Marshal, no call of filterProperties or of a parser.
NoOtherCall ==
    /\ first = None
    /\ props = <<>>
    /\ filtered = <<>>
    /\ NoParse

Init ==
    /\ \/ IsGraphInput(report, FALSE)
       \/ IsArtifactInput(report, {ArtifactContainerImage, ArtifactVM, ArtifactFilesystem, ArtifactRepository})
       \/ IsPassthroughInput(report)
       \/ IsPackageInput(report)
    /\ Called
    /\ NoOtherCall

\* The same call over the graphs whose packages are all walked from, and
\* over the container images.
WalkInit ==
    /\ \/ IsGraphInput(report, TRUE)
       \/ IsArtifactInput(report, {ArtifactContainerImage})
    /\ Called
    /\ NoOtherCall

\* ----------------------------------------------------------- MarshalReport
\* A Component is allocated: the heap grows by one, the pointer is its index.
Alloc(h, component) == Append(h, component)

\* As AppendChildren, but the new children are put in front.
PrependChildren(h, c, children) == [h EXCEPT ![c].Components = children \o @]

\* component.Components = append(component.Components, children...)
AppendChildren(h, c, children) == [h EXCEPT ![c].Components = @ \o children]

\* MarshalReport, the call of rootComponent: an error is returned with no
\* Component; otherwise the root is allocated and the loop over the Results
\* starts.
RootComponent ==
    /\ pc = "MarshalReport"
    /\ LET rc == rootComponent(report)
       IN  IF rc.err
           THEN /\ err' = TRUE
                /\ pc' = "Marshal"
                /\ UNCHANGED <<heap, origin, root, ri>>
           ELSE /\ heap' = Alloc(heap, rc.component)
                /\ origin' = Append(origin, [kind |-> "root", result |-> 0, key |-> ""])
                /\ root' = Len(heap) + 1
                /\ ri' = 1
                /\ pc' = "Results"
                /\ err' = FALSE
    /\ UNCHANGED <<report, bom>>
    /\ UNCHANGED resultVars
    /\ UNCHANGED otherVars

\* As IsFloating, but conda packages are not taken as floating.
IsFloatingButConda(result) ==
    result.Type = NodePkg \/ result.Type = PythonPkg \/ result.Type = GemSpec \/ result.Type = Jar

IsFloating(result) ==
    result.Type = NodePkg \/ result.Type = PythonPkg \/ result.Type = GemSpec
        \/ result.Type = Jar \/ result.Type = CondaPkg

HasResultComponent(result) == result.Class = ClassOSPkg \/ result.Class = ClassLangPkg

\* marshalPackages up to its loop: the parent map and the package map.
EnterMarshalPackages(result) ==
    /\ parents' = ParentDeps(result.Packages)
    /\ pkgs' = PkgMap(result)
    /\ todo' = DOMAIN PkgMap(result)
    /\ directComponents' = <<>>
    /\ components' = EmptyMap
    /\ stack' = <<>>

\* marshalResult of a floating Result: no intermediate node.
MarshalResultFloating ==
    /\ pc = "Results"
    /\ ri <= Len(report.Results)
    /\ IsFloating(report.Results[ri])
    /\ appComponent' = Nil
    /\ EnterMarshalPackages(report.Results[ri])
    /\ pc' = "marshalPackages"
    /\ UNCHANGED <<report, heap, origin, root, err, bom, ri>>
    /\ UNCHANGED otherVars

\* marshalResult of an OS or lock-file Result: resultComponent, then
\* marshalPackages.
MarshalResultClass ==
    /\ pc = "Results"
    /\ ri <= Len(report.Results)
    /\ ~IsFloating(report.Results[ri])
    /\ HasResultComponent(report.Results[ri])
    /\ heap' = Alloc(heap, resultComponent(report.Results[ri], report.Metadata.OS))
    /\ origin' = Append(origin, [kind |-> "result", result |-> ri, key |-> ""])
    /\ appComponent' = Len(heap) + 1
    /\ EnterMarshalPackages(report.Results[ri])
    /\ pc' = "marshalPackages"
    /\ UNCHANGED <<report, root, err, bom, ri>>
    /\ UNCHANGED otherVars

\* marshalResult of any other Result returns nil, nil: nothing is appended.
MarshalResultOther ==
    /\ pc = "Results"
    /\ ri <= Len(report.Results)
    /\ ~IsFloating(report.Results[ri])
    /\ ~HasResultComponent(report.Results[ri])
    /\ heap' = AppendChildren(heap, root, <<>>)
    /\ ri' = ri + 1
    /\ UNCHANGED <<report, pc, origin, root, err, bom>>
    /\ UNCHANGED resultVars
    /\ UNCHANGED otherVars

\* ---------------------------------------------------------- marshalPackages
\* As SkipsPackage, but every indirect package is skipped, parent or not.
SkipsEveryIndirect(pkg, parentMap) == pkg.Package.Indirect

\* The test of the loop of marshalPackages: the package is not built as a root.
SkipsPackage(pkg, parentMap) ==
    pkg.Package.Indirect /\ Lookup(parentMap, pkg.Package.ID, {}) # {}

\* The memo has a Component for the package.
Registered(memo, pkg) == pkg.Package.ID \in DOMAIN memo

\* As Register, but the Component is not put into the memo.
RegisterNothing(memo, pkg, c) == memo

\* components[pkg.ID] = component
Register(memo, pkg, c) == MapPut(memo, pkg.Package.ID, c)

\* The map a root's walk starts with.
NewMemo(memo) == EmptyMap

\* marshalPackages returns nil, nil when a walk returned an error.
AbortPackages ==
    /\ directComponents' = <<>>
    /\ todo' = {}
    /\ stack' = <<>>
    /\ pc' = "marshalPackages"

\* The range loop yields a package that is skipped.
SkipIndirect ==
    /\ pc = "marshalPackages"
    /\ \E k \in todo :
        /\ SkipsPackage(pkgs[k], parents)
        /\ todo' = todo \ {k}
    /\ UNCHANGED <<report, pc, heap, origin, root, err, bom, ri>>
    /\ UNCHANGED <<appComponent, pkgs, parents, directComponents, components, stack>>
    /\ UNCHANGED otherVars

\* The range loop yields a package that is built as a root: marshalPackage
\* is called with a new memo, builds the Component and registers it.
StartRoot ==
    /\ pc = "marshalPackages"
    /\ \E k \in todo :
        /\ ~SkipsPackage(pkgs[k], parents)
        /\ LET built == pkgComponent(pkgs[k])
           IN  IF built.err
               THEN /\ AbortPackages
                    /\ UNCHANGED <<heap, origin, components>>
               ELSE IF built.isNil
               THEN /\ todo' = todo \ {k}
                    /\ components' = NewMemo(components)
                    /\ UNCHANGED <<heap, origin, directComponents, stack, pc>>
               ELSE /\ todo' = todo \ {k}
                    /\ heap' = Alloc(heap, built.component)
                    /\ origin' = Append(origin, [kind |-> "package", result |-> ri, key |-> k])
                    /\ components' = Register(NewMemo(components), pkgs[k], Len(heap) + 1)
                    /\ stack' = <<[key |-> k, component |-> Len(heap) + 1, i |-> 1]>>
                    /\ pc' = "marshalPackage"
                    /\ UNCHANGED directComponents
    /\ UNCHANGED <<report, root, err, bom, ri, appComponent, pkgs, parents>>
    /\ UNCHANGED otherVars

\* ----------------------------------------------------------- marshalPackage
Top == stack[Len(stack)]

TopDeps == pkgs[Top.key].Package.DependsOn

\* The loop variable of the innermost call moves to the next dependency.
NextDep(st) == [st EXCEPT ![Len(st)].i = @ + 1]

\* The dependency is not a key of the package map: continue.
SkipDangling ==
    /\ pc = "marshalPackage"
    /\ Top.i <= Len(TopDeps)
    /\ TopDeps[Top.i] \notin DOMAIN pkgs
    /\ stack' = NextDep(stack)
    /\ UNCHANGED <<report, pc, heap, origin, root, err, bom, ri>>
    /\ UNCHANGED <<appComponent, pkgs, parents, todo, directComponents, components>>
    /\ UNCHANGED otherVars

\* The dependency is registered: the recursive call returns the registered
\* Component at once, and it is appended to the children.
VisitRegistered ==
    /\ pc = "marshalPackage"
    /\ Top.i <= Len(TopDeps)
    /\ TopDeps[Top.i] \in DOMAIN pkgs
    /\ Registered(components, pkgs[TopDeps[Top.i]])
    /\ heap' = AppendChildren(heap, Top.component, <<components[pkgs[TopDeps[Top.i]].Package.ID]>>)
    /\ stack' = NextDep(stack)
    /\ UNCHANGED <<report, pc, origin, root, err, bom, ri>>
    /\ UNCHANGED <<appComponent, pkgs, parents, todo, directComponents, components>>
    /\ UNCHANGED otherVars

\* The dependency is not registered: the recursive call builds the
\* Component, registers it and goes on with its dependencies.
Descend ==
    /\ pc = "marshalPackage"
    /\ Top.i <= Len(TopDeps)
    /\ TopDeps[Top.i] \in DOMAIN pkgs
    /\ ~Registered(components, pkgs[TopDeps[Top.i]])
    /\ LET k == TopDeps[Top.i]
           built == pkgComponent(pkgs[k])
       IN  IF built.err
           THEN /\ AbortPackages
                /\ UNCHANGED <<heap, origin, components>>
           ELSE IF built.isNil
           THEN /\ heap' = AppendChildren(heap, Top.component, <<Nil>>)
                /\ stack' = NextDep(stack)
                /\ UNCHANGED <<origin, components, todo, directComponents, pc>>
           ELSE /\ heap' = Alloc(heap, built.component)
                /\ origin' = Append(origin, [kind |-> "package", result |-> ri, key |-> k])
                /\ components' = Register(components, pkgs[k], Len(heap) + 1)
                /\ stack' = Append(stack, [key |-> k, component |-> Len(heap) + 1, i |-> 1])
                /\ UNCHANGED <<todo, directComponents, pc>>
    /\ UNCHANGED <<report, root, err, bom, ri, appComponent, pkgs, parents>>
    /\ UNCHANGED otherVars

\* The innermost call has no dependency left and returns its Component: to
\* the calling marshalPackage, which appends it to the children, or to
\* marshalPackages, which appends it to directComponents.
ReturnPackage ==
    /\ pc = "marshalPackage"
    /\ Top.i > Len(TopDeps)
    /\ IF Len(stack) = 1
       THEN /\ directComponents' = Append(directComponents, Top.component)
            /\ stack' = <<>>
            /\ pc' = "marshalPackages"
            /\ UNCHANGED heap
       ELSE /\ heap' = AppendChildren(heap, stack[Len(stack) - 1].component, <<Top.component>>)
            /\ stack' = NextDep(SubSeq(stack, 1, Len(stack) - 1))
            /\ UNCHANGED <<directComponents, pc>>
    /\ UNCHANGED <<report, origin, root, err, bom, ri>>
    /\ UNCHANGED <<appComponent, pkgs, parents, todo, components>>
    /\ UNCHANGED otherVars

\* marshalPackages returns directComponents; marshalResult returns them, or
\* the intermediate node with them as its children; MarshalReport appends
\* what marshalResult returned to the children of the root.
ReturnResult ==
    /\ pc = "marshalPackages"
    /\ todo = {}
    /\ heap' = IF appComponent = Nil
               THEN AppendChildren(heap, root, directComponents)
               ELSE AppendChildren([heap EXCEPT ![appComponent].Components = directComponents],
                                   root, <<appComponent>>)
    /\ ri' = ri + 1
    /\ pc' = "Results"
    /\ UNCHANGED <<report, origin, root, err, bom>>
    /\ UNCHANGED resultVars
    /\ UNCHANGED otherVars

\* MarshalReport returns root, nil after the last Result.
ReturnReport ==
    /\ pc = "Results"
    /\ ri > Len(report.Results)
    /\ pc' = "Marshal"
    /\ UNCHANGED <<report, heap, origin, root, err, bom, ri>>
    /\ UNCHANGED resultVars
    /\ UNCHANGED otherVars

\* Marshal: the error of MarshalReport with no BOM, or the BOM of the root.
Marshal ==
    /\ pc = "Marshal"
    /\ bom' = IF err THEN Nil ELSE root
    /\ pc' = "done"
    /\ UNCHANGED <<report, heap, origin, root, err, ri>>
    /\ UNCHANGED resultVars
    /\ UNCHANGED otherVars

Next ==
    \/ RootComponent
    \/ MarshalResultFloating
    \/ MarshalResultClass
    \/ MarshalResultOther
    \/ SkipIndirect
    \/ StartRoot
    \/ SkipDangling
    \/ VisitRegistered
    \/ Descend
    \/ ReturnPackage
    \/ ReturnResult
    \/ ReturnReport
    \/ Marshal

Spec == Init /\ [][Next]_vars

\* The call of Marshal runs on: no step that can be taken is put off forever.
FairSpec == WalkInit /\ [][Next]_vars /\ WF_vars(Next)

\* ------------------------------------------- a second call of Marshal
\* The depth to which a graph is unfolded: below the root, a Result node and
\* a chain of all packages of a Result, once around.
UnfoldDepth == MaxPkgs + 2

RECURSIVE Unfold(_, _)
\* The graph below Component c as a value: the Component with its children
\* in their order, each unfolded in turn, down to the depth.
Unfold(c, depth) ==
    IF c = Nil THEN Nil
    ELSE IF depth = 0 THEN [heap[c] EXCEPT !.Components = <<>>]
    ELSE LET children == heap[c].Components
         IN  [heap[c] EXCEPT !.Components = [d \in DOMAIN children |-> Unfold(children[d], depth - 1)]]

\* What the call of Marshal returned: the error, or the graph of the BOM.
Returned ==
    IF err THEN [err |-> TRUE] ELSE [err |-> FALSE, graph |-> Unfold(root, UnfoldDepth)]

\* Marshal has returned and is called again with the same Report; what the
\* first call returned is kept.
Rebuild ==
    /\ pc = "done"
    /\ first = None
    /\ first' = Returned
    /\ pc' = "MarshalReport"
    /\ heap' = <<>>
    /\ origin' = <<>>
    /\ root' = Nil
    /\ err' = FALSE
    /\ bom' = Nil
    /\ ri' = 0
    /\ appComponent' = Nil
    /\ pkgs' = EmptyMap
    /\ parents' = EmptyMap
    /\ todo' = {}
    /\ directComponents' = <<>>
    /\ components' = EmptyMap
    /\ stack' = <<>>
    /\ UNCHANGED <<report, props, filtered>>
    /\ UNCHANGED parseVars

\* The calls over the smaller dependency graphs and over the container
\* images.
RebuildInit ==
    /\ \/ IsGraphOfSize(report, MaxPkgs - 1, MaxSize - 1, FALSE)
       \/ IsArtifactInput(report, {ArtifactContainerImage})
    /\ Called
    /\ NoOtherCall

RebuildNext ==
    \/ RootComponent
    \/ MarshalResultFloating
    \/ MarshalResultClass
    \/ MarshalResultOther
    \/ SkipIndirect
    \/ StartRoot
    \/ SkipDangling
    \/ VisitRegistered
    \/ Descend
    \/ ReturnPackage
    \/ ReturnResult
    \/ ReturnReport
    \/ Marshal
    \/ Rebuild

RebuildSpec == RebuildInit /\ [][RebuildNext]_vars

\* ---------------------------------------------- calls of filterProperties
\* Properties with and without a value, the source epoch with the values
\* "0" and "5", and a property of another name with the value "0".
PropertyPool ==
    { Property("", PropertySrcEpoch, "0"), Property("", PropertySrcEpoch, "5"),
      Property("", PropertySrcEpoch, ""), Property("", PropertySrcRelease, "0"),
      Property("", PropertyPkgID, ""), Property("", PropertyPkgID, "a@1") }

PropertyLists == UNION {[1..k -> PropertyPool] : k \in 0..MaxProps}

\* Marshal is not called.
NotCalled ==
    /\ report = None
    /\ pc = "filterProperties"
    /\ heap = <<>>
    /\ origin = <<>>
    /\ root = Nil
    /\ err = FALSE
    /\ bom = Nil
    /\ ri = 0
    /\ appComponent = Nil
    /\ pkgs = EmptyMap
    /\ parents = EmptyMap
    /\ todo = {}
    /\ directComponents = <<>>
    /\ components = EmptyMap
    /\ stack = <<>>
    /\ first = None

FilterInit ==
    /\ props \in PropertyLists
    /\ filtered = <<>>
    /\ NotCalled
    /\ NoParse

\* filterProperties(props)
FilterProperties ==
    /\ pc = "filterProperties"
    /\ Len(filtered) = 0
    /\ filtered' = <<filterProperties(props)>>
    /\ UNCHANGED <<props, first>>
    /\ UNCHANGED marshalVars
    /\ UNCHANGED parseVars

\* filterProperties of what filterProperties(props) returned.
FilterAgain ==
    /\ pc = "filterProperties"
    /\ Len(filtered) = 1
    /\ filtered' = Append(filtered, filterProperties(filtered[1]))
    /\ UNCHANGED <<props, first>>
    /\ UNCHANGED marshalVars
    /\ UNCHANGED parseVars

FilterNext ==
    \/ FilterProperties
    \/ FilterAgain

FilterSpec == FilterInit /\ [][FilterNext]_vars
\* ---------------------------------------------------- strings of lock files
\* A string of a lock file is a sequence of pieces: single characters, and
\* "https://", "http://" and ".git" as one piece each.  The pieces in byte
\* order; no piece is a prefix of another, so comparing two strings piece by
\* piece compares them byte by byte.
Alphabet == <<"\t", " ", "#", ".git", "/", "1", "2", ":", "=", "@", "a", "b", "g", "http://", "https://", "m">>

Rank(c) == CHOOSE i \in DOMAIN Alphabet : Alphabet[i] = c

\* s < t of two Go strings.
StrLess(s, t) ==
    \E k \in 0..Len(s) :
        /\ k <= Len(t)
        /\ SubSeq(s, 1, k) = SubSeq(t, 1, k)
        /\ \/ k = Len(s) /\ k < Len(t)
           \/ k < Len(s) /\ k < Len(t) /\ Rank(s[k + 1]) < Rank(t[k + 1])

\* unicode.IsSpace, of the pieces.
Spaces == {"\t", " "}

RECURSIVE TrimSpace(_)
\* strings.TrimSpace(s).
TrimSpace(s) ==
    IF s # <<>> /\ s[1] \in Spaces THEN TrimSpace(Tail(s))
    ELSE IF s # <<>> /\ s[Len(s)] \in Spaces THEN TrimSpace(SubSeq(s, 1, Len(s) - 1))
    ELSE s

RECURSIVE Split(_, _)
\* strings.Split(s, sep), sep of one piece.
Split(s, sep) ==
    IF \A i \in DOMAIN s : s[i] # sep THEN <<s>>
    ELSE LET i == CHOOSE i \in DOMAIN s : s[i] = sep /\ \A j \in 1..(i - 1) : s[j] # sep
         IN  <<SubSeq(s, 1, i - 1)>> \o Split(SubSeq(s, i + 1, Len(s)), sep)

HasSuffix(name, suffix) ==
    Len(name) >= Len(suffix) /\ SubSeq(name, Len(name) - Len(suffix) + 1, Len(name)) = suffix

TrimSuffix(name, suffix) ==
    IF HasSuffix(name, suffix) THEN SubSeq(name, 1, Len(name) - Len(suffix)) ELSE name

\* ------------------------------------------------------------ types.Library
Location(startLine, endLine) == [StartLine |-> startLine, EndLine |-> endLine]

Library(id, name, version, locations) ==
    [ID |-> id, Name |-> name, Version |-> version, Locations |-> locations]

\* What Parse returns: the libraries, no dependencies, the error.
ParseResult(libraries, error) == [libs |-> libraries, deps |-> <<>>, err |-> error]

\* types.Libraries.Less: by ID, then by name, then by version.
Less(a, b) ==
    IF a.ID # b.ID THEN StrLess(a.ID, b.ID)
    ELSE IF a.Name # b.Name THEN StrLess(a.Name, b.Name)
    ELSE IF a.Version # b.Version THEN StrLess(a.Version, b.Version)
    ELSE FALSE

Orders(n) == {p \in [1..n -> 1..n] : \A i, j \in 1..n : i # j => p[i] # p[j]}

\* sort.Sort(libraries): the orders it can leave the libraries in.  The sort
\* is not stable: libraries that Less does not tell apart end in any order.
Sorted(libraries) ==
    {s \in {[i \in DOMAIN libraries |-> libraries[p[i]]] : p \in Orders(Len(libraries))} :
        \A i, j \in DOMAIN s : i < j => ~Less(s[j], s[i])}

\* utils.UniqueLibraries(libs): the first library of every name and version,
\* sorted.
UniqueLibraries(libraries) ==
    LET identifier(lib) == lib.Name \o <<"@">> \o lib.Version
        isFirst(i) == \A j \in 1..(i - 1) : identifier(libraries[j]) # identifier(libraries[i])
        firsts == {i \in DOMAIN libraries : isFirst(i)}
        unique == {libraries[i] : i \in firsts}
    IN  CHOOSE s \in [1..Cardinality(unique) -> unique] :
            /\ \A lib \in unique : \E i \in DOMAIN s : s[i] = lib
            /\ \A i, j \in DOMAIN s : i < j => Less(s[i], s[j])

\* ------------------------------------------------------ gradle lockfile Parse
\* Lines of one lock file.
MaxLines == 3

\* Lines of a gradle.lockfile: comments, one of them indented; dependencies
\* with and without class paths and surrounding space, two of them of one
\* name and version; the last line "empty=" shortened to "m="; a line of
\* four fields; a blank line; a line of three empty fields.
LinePool ==
    { <<"#", " ", "a">>,
      <<" ", "#", "g", ":", "a", ":", "1">>,
      <<"g", ":", "a", ":", "1", "=", "a">>,
      <<"\t", "g", ":", "a", ":", "1", " ">>,
      <<"g", ":", "b", ":", "2", "=", "a", "=", "b">>,
      <<"m", "=">>,
      <<"g", ":", "a", ":", "1", "=", "a", ":", "b">>,
      <<>>,
      <<":", ":">> }

Texts == UNION {[1..k -> LinePool] : k \in 0..MaxLines}

\* As lockfileLibrary, but the class paths stay in the version.
lockfileLibraryWithClassPaths(dep, line) ==
    LET name == Join(SubSeq(dep, 1, 2), <<":">>)
        version == dep[3]
    IN  Library(name \o <<":">> \o version, name, version, <<Location(line, line)>>)

\* The library of a line of three fields, the line being the line-th.
lockfileLibrary(dep, line) ==
    LET name == Join(SubSeq(dep, 1, 2), <<":">>)
        version == Split(dep[3], "=")[1]
    IN  Library(name \o <<":">> \o version, name, version, <<Location(line, line)>>)

\* Marshal is not called; the call is at position p.
Idle(p) ==
    /\ report = None
    /\ pc = p
    /\ heap = <<>>
    /\ origin = <<>>
    /\ root = Nil
    /\ err = FALSE
    /\ bom = Nil
    /\ ri = 0
    /\ appComponent = Nil
    /\ pkgs = EmptyMap
    /\ parents = EmptyMap
    /\ todo = {}
    /\ directComponents = <<>>
    /\ components = EmptyMap
    /\ stack = <<>>
    /\ first = None
    /\ props = <<>>
    /\ filtered = <<>>

LockfileInit ==
    /\ text \in Texts
    /\ lineNum = 0
    /\ libs = <<>>
    /\ parsed = None
    /\ lockFile = None
    /\ pinNum = 0
    /\ Idle("lockfile.Parse")

\* The scanner has a next line.
Scan ==
    /\ pc = "lockfile.Parse"
    /\ parsed = None
    /\ lineNum < Len(text)

\* The next line is a comment.
SkipComment ==
    /\ Scan
    /\ HasPrefix(TrimSpace(text[lineNum + 1]), <<"#">>)
    /\ lineNum' = lineNum + 1
    /\ UNCHANGED <<text, libs, parsed, lockFile, pinNum, first, props, filtered>>
    /\ UNCHANGED marshalVars

\* The next line is no comment and has not three fields.
SkipLine ==
    /\ Scan
    /\ LET line == TrimSpace(text[lineNum + 1])
       IN  /\ ~HasPrefix(line, <<"#">>)
           /\ Len(Split(line, ":")) # 3
    /\ lineNum' = lineNum + 1
    /\ UNCHANGED <<text, libs, parsed, lockFile, pinNum, first, props, filtered>>
    /\ UNCHANGED marshalVars

\* The next line is a dependency.
AppendLibrary ==
    /\ Scan
    /\ LET line == TrimSpace(text[lineNum + 1])
           dep == Split(line, ":")
       IN  /\ ~HasPrefix(line, <<"#">>)
           /\ Len(dep) = 3
           /\ libs' = Append(libs, lockfileLibrary(dep, lineNum + 1))
    /\ lineNum' = lineNum + 1
    /\ UNCHANGED <<text, parsed, lockFile, pinNum, first, props, filtered>>
    /\ UNCHANGED marshalVars

\* The scanner is at the end: Parse returns.
ReturnLibraries ==
    /\ pc = "lockfile.Parse"
    /\ parsed = None
    /\ lineNum = Len(text)
    /\ parsed' = ParseResult(UniqueLibraries(libs), FALSE)
    /\ UNCHANGED <<text, lineNum, libs, lockFile, pinNum, first, props, filtered>>
    /\ UNCHANGED marshalVars

LockfileNext ==
    \/ SkipComment
    \/ SkipLine
    \/ AppendLibrary
    \/ ReturnLibraries

LockfileSpec == LockfileInit /\ [][LockfileNext]_vars
\* ------------------------------------------------------------- swift Parse
\* Pins of one Package.resolved, of its nested object and of its top level
\* together.
MaxPins == 4

\* utils.PackageID(name, version).
PackageID(name, version) ==
    IF version = <<>> THEN name ELSE name \o <<"@">> \o version

State(version, branch) == [Version |-> version, Branch |-> branch]

Pin(repositoryURL, location, state) ==
    [RepositoryURL |-> repositoryURL, Location |-> location, State |-> state,
     StartLine |-> 0, EndLine |-> 0]

\* Pins with a version, with a branch, with neither and with both; URLs and
\* locations with and without "https://" and ".git", one with ".git" twice,
\* one with "https://" twice, one with "http://".
PinPool ==
    { Pin(<<"https://", "a", "/", "b", ".git">>, <<"https://", "b", "/", "a", ".git">>, State(<<"1">>, <<>>)),
      Pin(<<"http://", "a", "/", "b">>, <<"b", "/", "m">>, State(<<>>, <<"m">>)),
      Pin(<<"https://", "a", "/", "b", ".git">>, <<"https://", "b", "/", "a", ".git">>, State(<<>>, <<>>)),
      Pin(<<"a", "/", "m", ".git", ".git">>, <<"https://", "https://", "a">>, State(<<"2">>, <<"m">>)) }

\* The decoder records where a pin stands: the i-th pin of a list that
\* starts at the line `line` takes four lines.
Positioned(pins, line) ==
    [i \in DOMAIN pins |-> [pins[i] EXCEPT !.StartLine = line + 4 * (i - 1),
                                           !.EndLine = line + 4 * (i - 1) + 3]]

\* r cannot be read; r is read and is not a lock file.
Unreadable == [read |-> FALSE]
Undecodable == [read |-> TRUE, decoded |-> FALSE]

\* LockFile, decoded.
LockFile(objectPins, pins, version) ==
    [read |-> TRUE, decoded |-> TRUE,
     Object |-> [Pins |-> Positioned(objectPins, 4)],
     Pins |-> Positioned(pins, 3),
     Version |-> version]

LockVersions == 0..3

PinLists(n) == UNION {[1..k -> PinPool] : k \in 0..n}

\* r is unreadable, or no lock file, or a lock file of up to MaxPins pins.
IsLockFile(file) ==
    \/ file = Unreadable
    \/ file = Undecodable
    \/ \E objectPins \in PinLists(MaxPins) :
           \E pins \in PinLists(MaxPins - Len(objectPins)), version \in LockVersions :
               file = LockFile(objectPins, pins, version)

\* As libraryName, but the name is the repository URL whatever the version.
libraryNameOfURL(pin, lockVersion) ==
    TrimSuffix(TrimPrefix(pin.RepositoryURL, <<"https://">>), <<".git">>)

libraryName(pin, lockVersion) ==
    LET name == IF lockVersion > 1 THEN pin.Location ELSE pin.RepositoryURL
    IN  TrimSuffix(TrimPrefix(name, <<"https://">>), <<".git">>)

\* The pins the loop ranges over.
PinsOf(file) == IF file.Version > 1 THEN file.Pins ELSE file.Object.Pins

\* The library of a pin that has a version or a branch.
pinLibrary(pin, lockVersion) ==
    LET name == libraryName(pin, lockVersion)
        version == IF pin.State.Version # <<>> THEN pin.State.Version ELSE pin.State.Branch
    IN  Library(PackageID(name, version), name, version, <<Location(pin.StartLine, pin.EndLine)>>)

SwiftInit ==
    /\ IsLockFile(lockFile)
    /\ pinNum = 0
    /\ libs = <<>>
    /\ parsed = None
    /\ text = <<>>
    /\ lineNum = 0
    /\ Idle("swift.Parse")

\* io.ReadAll fails.
ReadError ==
    /\ pc = "swift.Parse"
    /\ parsed = None
    /\ ~lockFile.read
    /\ parsed' = ParseResult(<<>>, TRUE)
    /\ UNCHANGED <<lockFile, pinNum, libs, text, lineNum, first, props, filtered>>
    /\ UNCHANGED marshalVars

\* jfather.Unmarshal fails.
DecodeError ==
    /\ pc = "swift.Parse"
    /\ parsed = None
    /\ lockFile.read /\ ~lockFile.decoded
    /\ parsed' = ParseResult(<<>>, TRUE)
    /\ UNCHANGED <<lockFile, pinNum, libs, text, lineNum, first, props, filtered>>
    /\ UNCHANGED marshalVars

\* The loop has a next pin.
RangePins ==
    /\ pc = "swift.Parse"
    /\ parsed = None
    /\ lockFile.read /\ lockFile.decoded
    /\ pinNum < Len(PinsOf(lockFile))

\* The next pin has no version and no branch.
SkipPin ==
    /\ RangePins
    /\ LET pin == PinsOf(lockFile)[pinNum + 1]
       IN  pin.State.Version = <<>> /\ pin.State.Branch = <<>>
    /\ pinNum' = pinNum + 1
    /\ UNCHANGED <<lockFile, libs, parsed, text, lineNum, first, props, filtered>>
    /\ UNCHANGED marshalVars

\* The next pin has a version or a branch.
AppendPin ==
    /\ RangePins
    /\ LET pin == PinsOf(lockFile)[pinNum + 1]
       IN  /\ ~(pin.State.Version = <<>> /\ pin.State.Branch = <<>>)
           /\ libs' = Append(libs, pinLibrary(pin, lockFile.Version))
    /\ pinNum' = pinNum + 1
    /\ UNCHANGED <<lockFile, parsed, text, lineNum, first, props, filtered>>
    /\ UNCHANGED marshalVars

\* The loop is over: the libraries are sorted and returned.
ReturnSorted ==
    /\ pc = "swift.Parse"
    /\ parsed = None
    /\ lockFile.read /\ lockFile.decoded
    /\ pinNum = Len(PinsOf(lockFile))
    /\ \E sorted \in Sorted(libs) : parsed' = ParseResult(sorted, FALSE)
    /\ UNCHANGED <<lockFile, pinNum, libs, text, lineNum, first, props, filtered>>
    /\ UNCHANGED marshalVars

SwiftNext ==
    \/ ReadError
    \/ DecodeError
    \/ SkipPin
    \/ AppendPin
    \/ ReturnSorted

SwiftSpec == SwiftInit /\ [][SwiftNext]_vars
\* ================================================================== claims
\* MarshalReport has returned a root and Marshal its BOM.
Built == pc = "done" /\ ~err

Pointers == 1..Len(heap)

\* The Components built for the package of key k of Result i.
ComponentsOf(i, k) ==
    {c \in Pointers : origin[c] = [kind |-> "package", result |-> i, key |-> k]}

\* The children of a Component, as a set of pointers.
Children(c) == Range(heap[c].Components)

\* marshalPackages is called for Result i.
Marshaled(i) ==
    \/ report.Results[i].Type \in {"node-pkg", "python-pkg", "gemspec", "jar", "conda-pkg"}
    \/ report.Results[i].Class \in {"os-pkgs", "lang-pkgs"}

\* The ID of a package: its natural ID, or name@version when it has none.
StableID(p) == IF p.ID # "" THEN p.ID ELSE p.Name \o "@" \o p.Version

\* Package j of Result i is marked Indirect and its ID, the stable one, is in
\* the DependsOn of a package of the Result.
IndirectWithParentInResult(i, j) ==
    LET P == report.Results[i].Packages
    IN  P[j].Indirect /\ \E m \in DOMAIN P : StableID(P[j]) \in Range(P[m].DependsOn)

\* Package j of Result i is marked Indirect and its ID field, as it stands,
\* is in the DependsOn of a package of the Result.
IndirectWithParent(i, j) ==
    LET P == report.Results[i].Packages
    IN  P[j].Indirect /\ \E m \in DOMAIN P : P[j].ID \in Range(P[m].DependsOn)

\* ------------------------------------------------------------------- C1
\* C1 (sharing invariant): whenever package p of a Result is in the
\* DependsOn of two different direct packages a and b of the Result, the
\* built graph has exactly one Component for p, and that instance is a
\* child of the Component(s) of a and of b.
SharingInvariant ==
    Built =>
        \A i \in DOMAIN report.Results :
            LET P == report.Results[i].Packages
            IN  \A p, a, b \in DOMAIN P :
                    ( /\ Marshaled(i)
                      /\ a # b /\ p # a /\ p # b /\ ~P[a].Indirect /\ ~P[b].Indirect
                      /\ P[p].ID \in Range(P[a].DependsOn)
                      /\ P[p].ID \in Range(P[b].DependsOn) )
                    => /\ Cardinality(ComponentsOf(i, PkgKey(P[p]))) = 1
                       /\ \A c \in ComponentsOf(i, PkgKey(P[a])) \cup ComponentsOf(i, PkgKey(P[b])) :
                              Children(c) \cap ComponentsOf(i, PkgKey(P[p])) # {}

\* ------------------------------------------------------------------- C2
\* The node the package forest of Result i hangs under: the root for a
\* floating Result, the intermediate node otherwise.
ContainerOf(i) ==
    IF \E c \in Pointers : origin[c].kind = "result" /\ origin[c].result = i
    THEN CHOOSE c \in Pointers : origin[c].kind = "result" /\ origin[c].result = i
    ELSE root

\* The positions of the children of the container that were built for Result i.
ForestRoots(i) ==
    {d \in DOMAIN heap[ContainerOf(i)].Components :
        LET c == heap[ContainerOf(i)].Components[d]
        IN  c # Nil /\ origin[c].kind = "package" /\ origin[c].result = i}

RootOf(i, d) == heap[ContainerOf(i)].Components[d]

\* The children of the container of Result i that were built for its
\* package j.
RootsOf(i, j) ==
    {d \in ForestRoots(i) : origin[RootOf(i, d)].key = PkgKey(report.Results[i].Packages[j])}

\* C2 (root-selection law): in every Result marshalPackages is called for, a
\* package is missing among the direct children of the Result's container
\* node iff it is marked Indirect and some package of the Result lists its
\* ID in DependsOn, the ID being the stable one: the ID field, or
\* name@version when the field is empty; every other package is there, once.
RootSelectionLaw ==
    Built =>
        \A i \in DOMAIN report.Results : Marshaled(i) =>
            \A j \in DOMAIN report.Results[i].Packages :
                /\ IndirectWithParentInResult(i, j) <=> RootsOf(i, j) = {}
                /\ Cardinality(RootsOf(i, j)) <= 1

\* The same with the ID field read as it stands, an empty field being the
\* ID of no package: what the skip test of the loop decides by.
RootSelectionByIDField ==
    Built =>
        \A i \in DOMAIN report.Results : Marshaled(i) =>
            \A j \in DOMAIN report.Results[i].Packages :
                LET roots == {d \in ForestRoots(i) : origin[RootOf(i, d)].key = PkgKey(report.Results[i].Packages[j])}
                IN  /\ IndirectWithParent(i, j) <=> roots = {}
                    /\ Cardinality(roots) <= 1

\* An indirect package with a parent in the Result is omitted and an indirect
\* package with no parent in the Result is a root, in one built Result.
RootSelectionWitness ==
    /\ Built
    /\ \E i \in DOMAIN report.Results : \E j, m \in DOMAIN report.Results[i].Packages :
        /\ Marshaled(i)
        /\ IndirectWithParent(i, j)
        /\ report.Results[i].Packages[m].Indirect /\ ~IndirectWithParent(i, m)
        /\ \E d \in ForestRoots(i) : origin[RootOf(i, d)].key = PkgKey(report.Results[i].Packages[m])
        /\ \A d \in ForestRoots(i) : origin[RootOf(i, d)].key # PkgKey(report.Results[i].Packages[j])

\* ------------------------------------------------------------------- C3
\* Every active call of marshalPackage has registered its package.
RegisteredBeforeDependencies ==
    \A f \in DOMAIN stack : pkgs[stack[f].key].Package.ID \in DOMAIN components

\* The dependency the innermost call is at resolves to a registered ID.
AtRegisteredDependency ==
    /\ pc = "marshalPackage"
    /\ Top.i <= Len(TopDeps)
    /\ TopDeps[Top.i] \in DOMAIN pkgs
    /\ pkgs[TopDeps[Top.i]].Package.ID \in DOMAIN components

\* The visit returns the registered node: no call is added, no Component is
\* built, and the registered node is the new last child.
ReturnsRegistered ==
    /\ Len(stack') = Len(stack)
    /\ Len(heap') = Len(heap)
    /\ components' = components
    /\ heap'[Top.component].Components =
           Append(heap[Top.component].Components, components[pkgs[TopDeps[Top.i]].Package.ID])

\* C3 (termination): whatever the DependsOn edges of the Results are (cycles,
\* self-dependencies, repeated edges), the call of Marshal terminates; a
\* package's Component is registered before any of its dependencies is
\* visited, and the visit of a registered ID returns the registered node
\* without recursing.
CycleTermination ==
    /\ []RegisteredBeforeDependencies
    /\ [][AtRegisteredDependency => ReturnsRegistered]_vars
    /\ <>(pc = "done")

\* The walk is back at a package that is still being built: an edge that
\* closes a cycle is visited.
CycleWitness ==
    /\ AtRegisteredDependency
    /\ \E f \in DOMAIN stack : stack[f].key = TopDeps[Top.i]
    /\ Len(stack) >= 2
    /\ report.Results[ri].Packages[1].ID # ""
\* ------------------------------------------------------------------- C4
\* Result i has exactly the packages A and B, A depending on B and B on A.
IsTwoCycle(i) ==
    LET P == report.Results[i].Packages
    IN  /\ Len(P) = 2
        /\ P[1].DependsOn = <<PkgKey(P[2])>>
        /\ P[2].DependsOn = <<PkgKey(P[1])>>

\* Package j of Result i is built, and each of its Components has one child,
\* a Component of package m.
ListsOnce(i, j, m) ==
    LET P == report.Results[i].Packages
    IN  /\ ComponentsOf(i, PkgKey(P[j])) # {}
        /\ \A c \in ComponentsOf(i, PkgKey(P[j])) :
              /\ Len(heap[c].Components) = 1
              /\ heap[c].Components[1] \in ComponentsOf(i, PkgKey(P[m]))

\* C4 (two-cycle outcome): for a Result of two packages A and B that depend
\* on each other, both A and B are built as Components, A's Component lists
\* B as a child exactly once and B's lists A exactly once.
TwoCycleOutcome ==
    Built =>
        \A i \in DOMAIN report.Results :
            (Marshaled(i) /\ IsTwoCycle(i)) => (ListsOnce(i, 1, 2) /\ ListsOnce(i, 2, 1))

\* ------------------------------------------------------------------- C5
\* For each child of the root, the Result it was built for.
ChildResults ==
    [d \in DOMAIN heap[root].Components |-> origin[heap[root].Components[d]].result]

ChildrenFrom(i) == {d \in DOMAIN ChildResults : ChildResults[d] = i}

InResultOrder ==
    \A d1, d2 \in DOMAIN ChildResults : d1 < d2 => ChildResults[d1] <= ChildResults[d2]

FloatingEcosystem(i) ==
    report.Results[i].Type \in {"node-pkg", "python-pkg", "gemspec", "jar", "conda-pkg"}

\* The packages of Result i that are candidate roots.
CandidateRoots(i) ==
    {j \in DOMAIN report.Results[i].Packages : ~IndirectWithParent(i, j)}

\* The number of Components marshalResult returns for Result i.
Contribution(i) ==
    IF FloatingEcosystem(i) THEN Cardinality(CandidateRoots(i))
    ELSE IF report.Results[i].Class \in {"os-pkgs", "lang-pkgs"} THEN 1
    ELSE 0

\* C5 as stated: the children of the root are in Result order and no Result
\* (that has packages or is not floating) is left without its subtree.
EveryResultHasSubtree ==
    Built =>
        /\ InResultOrder
        /\ \A i \in DOMAIN report.Results :
              (~FloatingEcosystem(i) \/ report.Results[i].Packages # <<>>) => ChildrenFrom(i) # {}

\* C5 (amended): the children of the root are exactly what marshalResult
\* returned for the Results, in Result order: the forest roots of a floating
\* Result, the one intermediate node of an OS or lock-file Result, and
\* nothing for a non-floating Result of any other class.
RootChildrenInResultOrder ==
    Built =>
        /\ InResultOrder
        /\ \A d \in DOMAIN ChildResults : ChildResults[d] \in DOMAIN report.Results
        /\ \A i \in DOMAIN report.Results : Cardinality(ChildrenFrom(i)) = Contribution(i)

\* Two Results have both contributed children to the root.
ResultOrderWitness ==
    /\ Built
    /\ Len(report.Results) = 2
    /\ ChildrenFrom(1) # {} /\ ChildrenFrom(2) # {}
    /\ report.Results[1] # report.Results[2]

\* ------------------------------------------------------------------- C6
ResultNodes(i) == {c \in Pointers : origin[c].kind = "result" /\ origin[c].result = i}

\* C6 (floating Results): for a Result of a floating ecosystem, whatever its
\* class, no intermediate node is built and the Component of every candidate
\* root is a direct child of the artifact root.
FloatingPassthrough ==
    Built =>
        \A i \in DOMAIN report.Results : FloatingEcosystem(i) =>
            /\ ResultNodes(i) = {}
            /\ \A j \in CandidateRoots(i) :
                  Children(root) \cap ComponentsOf(i, PkgKey(report.Results[i].Packages[j])) # {}
            /\ \A c \in Pointers :
                  (origin[c].kind = "package" /\ origin[c].result = i /\ c \in Children(root))
                      => \E j \in CandidateRoots(i) : origin[c].key = PkgKey(report.Results[i].Packages[j])

\* A floating Result of a class that is neither OS nor language packages, and
\* one of the conda ecosystem, have their packages under the root.
FloatingWitness ==
    /\ Built
    /\ \E i, k \in DOMAIN report.Results :
          /\ FloatingEcosystem(i) /\ report.Results[i].Class = "custom"
          /\ report.Results[k].Type = "conda-pkg"
          /\ \E c \in Children(root) : origin[c].kind = "package" /\ origin[c].result = i
          /\ \E c \in Children(root) : origin[c].kind = "package" /\ origin[c].result = k

\* ------------------------------------------------------------------- C7
\* The intermediate node c of Result i is as resultComponent and
\* marshalResult make it.
IsResultNode(i, c) ==
    LET r == report.Results[i]
        os == report.Metadata.OS
    IN  /\ Cardinality({d \in DOMAIN heap[root].Components : heap[root].Components[d] = c}) = 1
        /\ heap[c].Properties = << [Namespace |-> "", Name |-> "Type", Value |-> r.Type],
                                   [Namespace |-> "", Name |-> "Class", Value |-> r.Class] >>
        /\ r.Class = "os-pkgs" =>
              /\ heap[c].Type = "operating-system"
              /\ os # None => (heap[c].Name = os.Family /\ heap[c].Version = os.Name)
              /\ os = None => (heap[c].Name = r.Target /\ heap[c].Version = "")
        /\ r.Class = "lang-pkgs" =>
              /\ heap[c].Type = "application"
              /\ heap[c].Name = r.Target /\ heap[c].Version = ""
        /\ \A j \in CandidateRoots(i) : Children(c) \cap ComponentsOf(i, PkgKey(r.Packages[j])) # {}
        /\ \A ch \in Children(c) :
              /\ ch # Nil /\ origin[ch].kind = "package" /\ origin[ch].result = i
              /\ \E j \in CandidateRoots(i) : origin[ch].key = PkgKey(r.Packages[j])

\* C7 as stated: every Result that is not floating has exactly one
\* intermediate node, with the two properties and the package forest.
EveryAnchoredResultHasNode ==
    Built =>
        \A i \in DOMAIN report.Results : ~FloatingEcosystem(i) =>
            /\ Cardinality(ResultNodes(i)) = 1
            /\ \A c \in ResultNodes(i) : IsResultNode(i, c)

\* C7 (amended): every Result that is not floating and whose class is
\* OSPackage or LanguagePackage has exactly one intermediate node: a child of
\* the root, with exactly the properties Type and Class, of kind
\* Operating-System (named by the OS family and name when OS info is there,
\* else by the target) or Application (named by the target), with the
\* package forest as its children.  A non-floating Result of another class
\* has no node and no package Component.
AnchoredResultNode ==
    Built =>
        \A i \in DOMAIN report.Results : ~FloatingEcosystem(i) =>
            IF report.Results[i].Class \in {"os-pkgs", "lang-pkgs"}
            THEN /\ Cardinality(ResultNodes(i)) = 1
                 /\ \A c \in ResultNodes(i) : IsResultNode(i, c)
            ELSE \A c \in Pointers : origin[c].result # i

\* An OS Result with OS info and one without, each with its node and a
\* package under it, are built.
AnchoredResultWitness ==
    /\ Built
    /\ \E i \in DOMAIN report.Results :
          /\ report.Results[i].Class = "os-pkgs" /\ ~FloatingEcosystem(i)
          /\ report.Metadata.OS # None
          /\ \E c \in ResultNodes(i) : heap[c].Name = "alpine" /\ heap[c].Components # <<>>
    /\ \E i \in DOMAIN report.Results :
          /\ report.Results[i].Class = "lang-pkgs" /\ ~FloatingEcosystem(i)
          /\ \E c \in ResultNodes(i) : heap[c].Components # <<>>

\* ------------------------------------------------------------------- C8
Passthrough == report.ArtifactType = "cyclonedx"

\* The root is the conversion of the metadata component of the document:
\* its name, group and kind, its parsed identifier, and its properties with
\* their full names and values, and nothing else.
IsConversion(c) ==
    LET doc == report.CycloneDX.Metadata.Component
    IN  /\ heap[c].Name = doc.Name /\ heap[c].Group = doc.Group /\ heap[c].Type = doc.Type
        /\ heap[c].Version = "" /\ heap[c].Supplier = ""
        /\ heap[c].Licenses = <<>> /\ heap[c].Hashes = <<>> /\ heap[c].Vulnerabilities = <<>>
        /\ (doc.PackageURL = "") <=> (heap[c].PackageURL = None)
        /\ Len(heap[c].Properties) = Len(doc.Properties)
        /\ \A k \in DOMAIN doc.Properties :
              /\ heap[c].Properties[k].Value = doc.Properties[k].Value
              /\ heap[c].Properties[k].Namespace \o heap[c].Properties[k].Name = Join(doc.Properties[k].Name, "")

\* C8 as stated: the root of a passthrough Report is the conversion and no
\* per-Result subtree is added to it.
PassthroughUnchanged ==
    (Built /\ Passthrough) => (IsConversion(root) /\ heap[root].Components = <<>>)

\* C8 (amended): the root of a passthrough Report is the conversion of the
\* document's metadata component with no artifact-level property added; the
\* subtrees of the Report's Results are appended to it as to any other root.
PassthroughRoot ==
    (Built /\ Passthrough) =>
        /\ IsConversion(root)
        /\ \A i \in DOMAIN report.Results : Cardinality(ChildrenFrom(i)) = Contribution(i)

\* A passthrough Report with Results is built and its root has children.
PassthroughWitness ==
    /\ Built /\ Passthrough
    /\ report.Results # <<>>
    /\ heap[root].Components # <<>>
    /\ heap[root].PackageURL # None

\* ------------------------------------------------------------------- C9
\* The identifier of a container-image root cannot be constructed, or the
\* identifier of the passthrough metadata component cannot be parsed.
IdentifierFails ==
    \/ /\ report.ArtifactType = "container_image"
       /\ report.Metadata.RepoDigests # <<>>
       /\ report.Metadata.RepoDigests[1] \notin WellFormedDigests
    \/ /\ report.ArtifactType = "cyclonedx"
       /\ report.CycloneDX.Metadata.Component.PackageURL # ""
       /\ report.CycloneDX.Metadata.Component.PackageURL \notin SerializedPurls

\* C9 (fatal identifier failure): when the identifier fails, MarshalReport
\* returns an error and no Component (none is built at all), and Marshal
\* returns the error with no BOM.
FatalIdentifierFailure ==
    IdentifierFails =>
        /\ pc \in {"MarshalReport", "Marshal", "done"}
        /\ pc # "MarshalReport" => err
        /\ root = Nil /\ heap = <<>> /\ bom = Nil

\* Marshal has returned for a container image whose identifier failed.
FatalImageWitness ==
    pc = "done" /\ err /\ report.ArtifactType = "container_image" /\ report.Results # <<>>
\* ------------------------------------------------------------------- C11
\* The package of key k in the package map of Result i.
PkgOf(i, k) ==
    LET P == report.Results[i].Packages
        last == CHOOSE j \in DOMAIN P :
                    PkgKey(P[j]) = k /\ \A m \in DOMAIN P : PkgKey(P[m]) = k => m <= j
    IN  P[last]

\* The keys of the package map of Result i.
KeysOf(i) == {PkgKey(report.Results[i].Packages[j]) : j \in DOMAIN report.Results[i].Packages}

\* The DependsOn entries of the package of key k that are keys of the
\* package map of Result i, in DependsOn order.
ResolvedDeps(i, k) ==
    SelectSeq(PkgOf(i, k).DependsOn, LAMBDA dep : dep \in KeysOf(i))

\* The children of package Component c are the Components of the resolving
\* DependsOn entries of its package, in DependsOn order.
ChildrenAreResolvedDeps(c) ==
    LET deps == ResolvedDeps(origin[c].result, origin[c].key)
    IN  /\ Len(heap[c].Components) = Len(deps)
        /\ \A d \in DOMAIN deps :
              /\ heap[c].Components[d] # Nil
              /\ origin[heap[c].Components[d]] =
                     [kind |-> "package", result |-> origin[c].result, key |-> deps[d]]

PackageComponents == {c \in Pointers : origin[c].kind = "package"}

\* Some package of some Result has a DependsOn entry that is no key of the
\* Result's package map.
HasDangling ==
    \E i \in DOMAIN report.Results : \E j \in DOMAIN report.Results[i].Packages :
        \E dep \in Range(report.Results[i].Packages[j].DependsOn) :
            dep \notin KeysOf(i)

\* C11 (dangling references): a DependsOn ID that is no key of the Result's
\* package map gives no child and no error; the children of every package
\* Component are exactly the Components of the DependsOn entries that
\* resolve in the Result, in DependsOn order.
DanglingSkipped ==
    /\ (pc = "done" /\ HasDangling /\ ~IdentifierFails) => ~err
    /\ Built => \A c \in PackageComponents : ChildrenAreResolvedDeps(c)

\* The same over the Results whose packages all have a natural ID.
DanglingSkippedWithIDs ==
    /\ (pc = "done" /\ HasDangling /\ ~IdentifierFails) => ~err
    /\ Built => \A c \in PackageComponents :
          (\A j \in DOMAIN report.Results[origin[c].result].Packages :
               report.Results[origin[c].result].Packages[j].ID # "")
              => ChildrenAreResolvedDeps(c)

\* A package with a natural ID that has a dangling and a resolving entry is
\* built, with the one child.
DanglingWitness ==
    /\ Built
    /\ \E c \in PackageComponents :
          /\ PkgOf(origin[c].result, origin[c].key).ID # ""
          /\ Len(PkgOf(origin[c].result, origin[c].key).DependsOn) = 2
          /\ Len(ResolvedDeps(origin[c].result, origin[c].key)) = 1
          /\ Len(heap[c].Components) = 1
\* ------------------------------------------------------------------- C12
RECURSIVE Reach(_)
\* The Components reachable from the Components of S along child edges.
Reach(S) ==
    LET T == S \cup UNION {Children(c) \ {Nil} : c \in S}
    IN  IF T = S THEN S ELSE Reach(T)

\* The Components of the graph MarshalReport returned.
Graph == Reach({root})

\* A property that is not to appear in the output: one with an empty value,
\* or the source epoch with the value "0".
IsAbsentProperty(property) ==
    property.Value = "" \/ (property.Name = "SrcEpoch" /\ property.Value = "0")

\* C12 (no empty property): in the graph MarshalReport returned, no
\* Component at any depth carries a property with an empty value or a
\* source-epoch property with the value "0".
NoAbsentProperty ==
    Built => \A c \in Graph : \A d \in DOMAIN heap[c].Properties :
                 ~IsAbsentProperty(heap[c].Properties[d])

\* The same over the Components whose properties went through
\* filterProperties: the package Components and the artifact root.
NoAbsentPropertyWhereFiltered ==
    Built => \A c \in Graph :
        (origin[c].kind = "package" \/ (origin[c].kind = "root" /\ ~Passthrough))
            => \A d \in DOMAIN heap[c].Properties : ~IsAbsentProperty(heap[c].Properties[d])
\* ------------------------------------------------------------------- C13
\* The positions of the properties that are to stay: those with a value
\* that are not the source epoch with the value "0".
StayingPositions(l) ==
    {i \in DOMAIN l : l[i].Value # "" /\ ~(l[i].Name = "SrcEpoch" /\ l[i].Value = "0")}

\* r is the subsequence of l at the staying positions, in the order of l.
IsStableFilterOf(r, l) ==
    /\ Len(r) = Cardinality(StayingPositions(l))
    /\ \E f \in [DOMAIN r -> StayingPositions(l)] :
          /\ \A i, j \in DOMAIN r : i < j => f[i] < f[j]
          /\ \A i \in DOMAIN r : r[i] = l[f[i]]

\* C13 (stable filter): filterProperties returns the subsequence, in the
\* original relative order, of exactly the properties with a non-empty value
\* that are not the source epoch with value "0" (the source epoch "5" stays,
\* another name with value "0" stays); applying it to its own result gives
\* that result again.
StableFilter ==
    /\ Len(filtered) >= 1 => IsStableFilterOf(filtered[1], props)
    /\ Len(filtered) = 2 => filtered[2] = filtered[1]

\* filterProperties was applied twice to a list with the source epoch "0",
\* the source epoch "5" and another property of value "0"; two stayed.
StableFilterWitness ==
    /\ Len(filtered) = 2
    /\ Len(props) = 3
    /\ Len(filtered[1]) = 2
    /\ \E i, j, k \in DOMAIN props :
          /\ props[i] = [Namespace |-> "", Name |-> "SrcEpoch", Value |-> "0"]
          /\ props[j] = [Namespace |-> "", Name |-> "SrcEpoch", Value |-> "5"]
          /\ props[k] = [Namespace |-> "", Name |-> "SrcRelease", Value |-> "0"]
          /\ props[j] \in Range(filtered[1]) /\ props[k] \in Range(filtered[1])
\* ------------------------------------------------------------------- C14
\* Component c has the name, namespace and version the identity law gives
\* for package p.
HasIdentityOf(c, p) ==
    IF p.PURL = None
    THEN heap[c].Name = p.Name /\ heap[c].Group = "" /\ heap[c].Version = p.Version
    ELSE /\ heap[c].Version = p.PURL.Version
         /\ IF p.PURL.Type \in {"maven", "npm"}
            THEN heap[c].Name = p.PURL.Name /\ heap[c].Group = p.PURL.Namespace
            ELSE heap[c].Name = p.Name /\ heap[c].Group = ""

\* C14 (identity law): every package Component has the version of the
\* structured identifier when there is one, the identifier's name and
\* namespace only for the types Maven and npm and otherwise the raw name and
\* no namespace; with no identifier, the raw name and version and no
\* namespace.
IdentityLaw ==
    \A c \in PackageComponents : HasIdentityOf(c, PkgOf(origin[c].result, origin[c].key))

\* The Maven package com.acme:lib with the resolved version 2.3.0 is built
\* as lib, com.acme, 2.3.0, next to a package whose identifier is of
\* another type and has a namespace.
IdentityWitness ==
    /\ Built
    /\ \E c, d \in PackageComponents :
          /\ PkgOf(origin[c].result, origin[c].key).Name = "com.acme:lib"
          /\ PkgOf(origin[c].result, origin[c].key).Version = "2.3"
          /\ heap[c].Name = "lib" /\ heap[c].Group = "com.acme" /\ heap[c].Version = "2.3.0"
          /\ PkgOf(origin[d].result, origin[d].key).PURL # None
          /\ PkgOf(origin[d].result, origin[d].key).PURL.Type = "golang"
          /\ heap[d].Name = "github.com/acme/lib" /\ heap[d].Group = "" /\ heap[d].Version = "2.3.0"
\* ------------------------------------------------------------------- C15
\* The key of a Vulnerability record: its package ID, or name@installed
\* version when it has none.
RecordKey(v) == IF v.PkgID # "" THEN v.PkgID ELSE v.PkgName \o "@" \o v.InstalledVersion


\* The records of Result i whose key is the ID of package p, in input order.
RecordsOf(i, p) ==
    SelectSeq(report.Results[i].Vulnerabilities, LAMBDA v : RecordKey(v) = StableID(p))

\* C15 (vulnerability attachment): every package Component carries exactly
\* the Vulnerability records of its Result whose key equals the ID of its
\* package: a record is on every Component of the package its key matches
\* and on no Component of another package; no other Component carries any.
VulnerabilityAttachment ==
    \A c \in Pointers :
        IF origin[c].kind = "package"
        THEN heap[c].Vulnerabilities = RecordsOf(origin[c].result, PkgOf(origin[c].result, origin[c].key))
        ELSE heap[c].Vulnerabilities = <<>>

\* Two packages with no natural ID are built, one with the record that names
\* it by name and installed version and one with the record that names it by
\* package ID; a record of the Result matches neither.
VulnerabilityWitness ==
    /\ Built
    /\ \E c, d \in PackageComponents :
          /\ origin[c].result = origin[d].result
          /\ PkgOf(origin[c].result, origin[c].key).ID = ""
          /\ PkgOf(origin[d].result, origin[d].key).ID = ""
          /\ Len(heap[c].Vulnerabilities) = 1 /\ heap[c].Vulnerabilities[1].PkgID = ""
          /\ Len(heap[d].Vulnerabilities) = 1 /\ heap[d].Vulnerabilities[1].PkgID # ""
          /\ Len(report.Results[origin[c].result].Vulnerabilities) = 3
\* ------------------------------------------------------------------- C16
\* The Components built by rootComponent.
Roots == {c \in Pointers : origin[c].kind = "root"}

\* rootComponent has returned a root for a Report that is no passthrough.
RootBuilt == root # Nil /\ ~Passthrough

\* C16 (root name and kind): rootComponent builds exactly one root; its name
\* is the artifact name and its kind is Container for a container image and
\* for a VM image, Application for a filesystem and for a repository scan.
RootNameAndKind ==
    RootBuilt =>
        /\ Roots = {root}
        /\ heap[root].Name = report.ArtifactName
        /\ report.ArtifactType \in {"container_image", "vm"} => heap[root].Type = "container"
        /\ report.ArtifactType \in {"filesystem", "repository"} => heap[root].Type = "application"

\* The root of a VM image with Results is built, and it is a Container.
RootKindWitness ==
    /\ Built
    /\ report.ArtifactType = "vm"
    /\ report.Results # <<>>
    /\ heap[root].Type = "container"
    /\ heap[root].Components # <<>>
\* ------------------------------------------------------------------- C17
\* The values of the properties of Component c that have the name, in order.
ValuesOf(c, name) ==
    LET named == SelectSeq(heap[c].Properties, LAMBDA property : property.Name = name)
    IN  [d \in DOMAIN named |-> named[d].Value]

\* Component c carries the property once, with the value, when present
\* holds, and does not carry it otherwise.
CarriesExactlyWhen(c, name, present, value) ==
    ValuesOf(c, name) = IF present THEN <<value>> ELSE <<>>

\* The root carries the schema version, and size, repo digests, diff IDs
\* and repo tags exactly when the metadata has them, the lists comma-joined
\* in input order.
CarriesMetadataProperties ==
    LET m == report.Metadata
    IN  /\ CarriesExactlyWhen(root, "SchemaVersion", TRUE, Itoa(report.SchemaVersion))
        /\ CarriesExactlyWhen(root, "Size", m.Size # 0, Itoa(m.Size))
        /\ CarriesExactlyWhen(root, "RepoDigest", m.RepoDigests # <<>>, Join(m.RepoDigests, ","))
        /\ CarriesExactlyWhen(root, "DiffID", m.DiffIDs # <<>>, Join(m.DiffIDs, ","))
        /\ CarriesExactlyWhen(root, "RepoTag", m.RepoTags # <<>>, Join(m.RepoTags, ","))

\* C17 as stated: for every artifact type the root carries the image ID
\* exactly when the metadata has one, next to the other properties.
ArtifactPropertiesForEveryType ==
    RootBuilt =>
        /\ CarriesMetadataProperties
        /\ CarriesExactlyWhen(root, "ImageID", report.Metadata.ImageID # "", report.Metadata.ImageID)

\* C17 (amended): the root of every Report that is no passthrough carries
\* the schema version always; the image ID exactly when the artifact is a
\* container image and the metadata has an image ID; size, repo digests,
\* diff IDs and repo tags exactly when the metadata has them, for every
\* artifact type, each list once as the comma-joined string of its values in
\* input order; and no other property.
ArtifactProperties ==
    RootBuilt =>
        /\ CarriesMetadataProperties
        /\ CarriesExactlyWhen(root, "ImageID",
                              report.ArtifactType = "container_image" /\ report.Metadata.ImageID # "",
                              report.Metadata.ImageID)
        /\ \A d \in DOMAIN heap[root].Properties :
              heap[root].Properties[d].Name \in
                  {"SchemaVersion", "ImageID", "Size", "RepoDigest", "DiffID", "RepoTag"}

\* The root of a VM image whose metadata has an image ID and two diff IDs is
\* built: it carries the joined diff IDs and no image ID.
ArtifactPropertiesWitness ==
    /\ Built
    /\ report.ArtifactType = "vm"
    /\ report.Metadata.ImageID # ""
    /\ Len(report.Metadata.DiffIDs) = 2
    /\ ValuesOf(root, "DiffID") = <<"sha256:l1,sha256:l2">>
    /\ ValuesOf(root, "ImageID") = <<>>
\* ------------------------------------------------------------------- C18
\* The second call of Marshal on the Report has returned.
BuiltTwice == pc = "done" /\ first # None

\* C18 (pure function of the Report): two builds of the same Report return
\* the same graph, with the same Components, edges and order of children
\* under every node; no step of a build changes the input Report.
SameGraphTwice ==
    /\ [](BuiltTwice => Returned = first)
    /\ [][report' = report]_vars

\* The part of C18 about the input: no step changes the Report.
InputUnchanged == [][report' = report]_vars

\* The roots of a Result are the same Components in both builds, in
\* another order.
OrderDiffers ==
    /\ BuiltTwice /\ ~err /\ ~first.err
    /\ Len(heap[root].Components) = 1
    /\ LET a == heap[heap[root].Components[1]].Components
           b == first.graph.Components[1].Components
       IN  /\ Len(a) = 2 /\ Len(b) = 2
           /\ heap[a[1]].Name = b[2].Name
           /\ heap[a[2]].Name = b[1].Name
           /\ b[1].Name # b[2].Name
\* ------------------------------------------------------------------- C19
\* The Components of the forest of Result i: its forest roots and what is
\* reachable from them.
Forest(i) == Reach({RootOf(i, d) : d \in ForestRoots(i)})

\* C19 (no package is dropped): for every Result marshalPackages is called
\* for, every package of the package list has a Component that is a forest
\* root or a descendant of one, also an indirect package whose parents in
\* the Result are indirect, that lies on a cycle of indirect packages, or
\* that depends on itself.
NoPackageDropped ==
    Built =>
        \A i \in DOMAIN report.Results : Marshaled(i) =>
            \A j \in DOMAIN report.Results[i].Packages :
                ComponentsOf(i, PkgKey(report.Results[i].Packages[j])) \cap Forest(i) # {}

\* The same over the Results in which no package is marked Indirect.
NoDirectPackageDropped ==
    Built =>
        \A i \in DOMAIN report.Results :
            (Marshaled(i) /\ \A j \in DOMAIN report.Results[i].Packages : ~report.Results[i].Packages[j].Indirect)
                => \A j \in DOMAIN report.Results[i].Packages :
                       ComponentsOf(i, PkgKey(report.Results[i].Packages[j])) \cap Forest(i) # {}

\* ------------------------------------------------------------------- C20
\* The memo lookup at a registered dependency returns the Component that was
\* built for the package the dependency names.
LookupReturnsOwnComponent ==
    AtRegisteredDependency =>
        origin[components[pkgs[TopDeps[Top.i]].Package.ID]].key = TopDeps[Top.i]

\* A package Component is its own child only when the package lists itself
\* in DependsOn.
OwnChildOnlyBySelfDependency ==
    \A c \in PackageComponents :
        c \in Children(c) => origin[c].key \in Range(PkgOf(origin[c].result, origin[c].key).DependsOn)

\* Two packages of a Result that have no ID and differ in name or version
\* are built as different Components.
BuiltApart ==
    \A i \in DOMAIN report.Results : Marshaled(i) =>
        \A j, m \in DOMAIN report.Results[i].Packages :
            LET p == report.Results[i].Packages[j]
                q == report.Results[i].Packages[m]
            IN  (p.ID = "" /\ q.ID = "" /\ (p.Name # q.Name \/ p.Version # q.Version))
                    => /\ ComponentsOf(i, PkgKey(p)) # {}
                       /\ ComponentsOf(i, PkgKey(q)) # {}
                       /\ ComponentsOf(i, PkgKey(p)) \cap ComponentsOf(i, PkgKey(q)) = {}

\* The parents root selection finds for a package are those recorded under
\* the key the package has in the package map.
ParentIndexByKey ==
    pc \in {"marshalPackages", "marshalPackage"} =>
        \A k \in DOMAIN pkgs : Lookup(parents, pkgs[k].Package.ID, {}) = Lookup(parents, k, {})

\* C20 (derived keys): packages with no natural ID are kept apart by their
\* name@version key: two of them that differ in name or version are built
\* as two Components, the memo lookup of marshalPackage never returns the
\* Component of one for the other (no package Component is its own child
\* unless its package depends on itself), and the parent index of root
\* selection is read with the key of the package map.
DerivedKeysKeptApart ==
    /\ LookupReturnsOwnComponent
    /\ ParentIndexByKey
    /\ Built => (OwnChildOnlyBySelfDependency /\ BuiltApart)

\* The same over the Results whose packages all have a natural ID.
NaturalKeysKeptApart ==
    (\A i \in DOMAIN report.Results : \A j \in DOMAIN report.Results[i].Packages :
         report.Results[i].Packages[j].ID # "")
        => /\ LookupReturnsOwnComponent
           /\ ParentIndexByKey
           /\ Built => OwnChildOnlyBySelfDependency
\* ------------------------------------------------------------------- C21
\* The line without the space around it: from its first piece that is no
\* space to its last.
WithoutSpace(line) ==
    LET solid == {i \in DOMAIN line : line[i] \notin Spaces}
    IN  IF solid = {} THEN <<>>
        ELSE SubSeq(line, CHOOSE i \in solid : \A j \in solid : i <= j,
                          CHOOSE i \in solid : \A j \in solid : i >= j)

ColonsOf(line) == {i \in DOMAIN line : line[i] = ":"}

\* A line that, trimmed, does not start with '#' and has exactly three
\* fields between its colons.
IsDependencyLine(line) ==
    LET t == WithoutSpace(line)
    IN  /\ t = <<>> \/ t[1] # "#"
        /\ Cardinality(ColonsOf(t)) = 2

\* The library is the one of the n-th line: the name is what stands before
\* the second colon, the version what stands between the second colon and
\* the first '=' after it, the ID the two joined by a colon, and the
\* location the line n.
ComesFromLine(lib, line, n) ==
    /\ IsDependencyLine(line)
    /\ LET t == WithoutSpace(line)
           second == CHOOSE i \in ColonsOf(t) : \A j \in ColonsOf(t) : i >= j
           equals == {i \in (second + 1)..Len(t) : t[i] = "="}
           end == IF equals = {} THEN Len(t)
                  ELSE (CHOOSE i \in equals : \A j \in equals : i <= j) - 1
       IN  /\ lib.Name = SubSeq(t, 1, second - 1)
           /\ lib.Version = SubSeq(t, second + 1, end)
           /\ lib.ID = lib.Name \o <<":">> \o lib.Version
           /\ lib.Locations = <<Location(n, n)>>

LockfileParsed == pc = "lockfile.Parse" /\ parsed # None

\* C21: gradle lockfile Parse returns no error, and every library it
\* returns is the library of a line of the input that, trimmed, is no
\* comment and has exactly three fields: name group:artifact, version the
\* third field up to its first '=', ID name:version, StartLine and EndLine
\* the number of the line among all lines of the input; a line of another
\* shape is the line of no library.
LockfileLibraries ==
    LockfileParsed =>
        /\ ~parsed.err
        /\ \A i \in DOMAIN parsed.libs :
               \E n \in DOMAIN text : ComesFromLine(parsed.libs[i], text[n], n)
        /\ \A n \in DOMAIN text :
               ~IsDependencyLine(text[n]) =>
                   \A i \in DOMAIN parsed.libs :
                       \A l \in DOMAIN parsed.libs[i].Locations :
                           parsed.libs[i].Locations[l].StartLine # n

\* Parse has returned the library of the third line of a file that starts
\* with a comment and a line of another shape; the library's line has
\* class paths.
LockfileWitness ==
    /\ LockfileParsed
    /\ Len(text) = 3
    /\ HasPrefix(TrimSpace(text[1]), <<"#">>)
    /\ ~IsDependencyLine(text[2]) /\ ~HasPrefix(TrimSpace(text[2]), <<"#">>)
    /\ \E i \in DOMAIN text[3] : text[3][i] = "="
    /\ Len(parsed.libs) = 1
    /\ parsed.libs[1].Locations = <<Location(3, 3)>>
\* ------------------------------------------------------------------- C22
SwiftParsed == pc = "swift.Parse" /\ parsed # None

\* The pins Parse is to read: those of the top level when the version is
\* greater than 1, those of the nested object otherwise.
PinsRead ==
    IF lockFile.Version <= 1 THEN lockFile.Object.Pins ELSE lockFile.Pins

\* name is url without one leading "https://" and, then, without one
\* trailing ".git".
IsNameOf(name, url) ==
    \E lead \in {<<>>, <<"https://">>}, trail \in {<<>>, <<".git">>} :
        /\ url = lead \o name \o trail
        /\ lead = <<>> => (url = <<>> \/ url[1] # "https://")
        /\ trail = <<>> => (name = <<>> \/ name[Len(name)] # ".git")

\* The pin has a version or a branch.
HasVersionOrBranch(pin) == pin.State.Version # <<>> \/ pin.State.Branch # <<>>

\* lib is the library of the pin: named after its repository URL when the
\* version of the lock file is at most 1 and after its location otherwise,
\* of its version, or of its branch when it has no version, at its lines.
IsLibraryOf(lib, pin) ==
    /\ IsNameOf(lib.Name, IF lockFile.Version <= 1 THEN pin.RepositoryURL ELSE pin.Location)
    /\ lib.Version = (IF pin.State.Version # <<>> THEN pin.State.Version ELSE pin.State.Branch)
    /\ lib.Locations = <<Location(pin.StartLine, pin.EndLine)>>

\* C22: swift Parse of a Package.resolved that decodes returns no error;
\* the libraries it returns are, one for one, the pins that have a version
\* or a branch, among the pins of the nested object when the version of the
\* lock file is at most 1 and among those of the top level when it is
\* greater: every such pin has its library, every library is the library of
\* such a pin, a pin with neither has none; and the list is sorted, no
\* library standing before one of a smaller ID.
SwiftLibraries ==
    (SwiftParsed /\ lockFile.read /\ lockFile.decoded) =>
        /\ ~parsed.err
        /\ \A k \in DOMAIN PinsRead :
               HasVersionOrBranch(PinsRead[k]) <=>
                   \E i \in DOMAIN parsed.libs : IsLibraryOf(parsed.libs[i], PinsRead[k])
        /\ \A i \in DOMAIN parsed.libs :
               \E k \in DOMAIN PinsRead :
                   HasVersionOrBranch(PinsRead[k]) /\ IsLibraryOf(parsed.libs[i], PinsRead[k])
        /\ Len(parsed.libs) = Cardinality({k \in DOMAIN PinsRead : HasVersionOrBranch(PinsRead[k])})
        /\ \A i, j \in DOMAIN parsed.libs :
               i < j => ~StrLess(parsed.libs[j].ID, parsed.libs[i].ID)

\* Parse has returned the libraries of a lock file of version 2 that has a
\* pin with a version in its nested object, and at its top level a pin with
\* a branch only, a pin with neither, and a pin with a version whose library
\* is returned first.
SwiftWitness ==
    /\ SwiftParsed /\ lockFile.read /\ lockFile.decoded
    /\ lockFile.Version = 2
    /\ Len(lockFile.Object.Pins) = 1 /\ HasVersionOrBranch(lockFile.Object.Pins[1])
    /\ Len(lockFile.Pins) = 3
    /\ lockFile.Pins[1].State.Version = <<>> /\ lockFile.Pins[1].State.Branch # <<>>
    /\ ~HasVersionOrBranch(lockFile.Pins[2])
    /\ lockFile.Pins[3].State.Version # <<>>
    /\ Len(parsed.libs) = 2
    /\ IsLibraryOf(parsed.libs[1], lockFile.Pins[3])
    /\ parsed.libs[1].Name # lockFile.Pins[3].Location
    /\ IsLibraryOf(parsed.libs[2], lockFile.Pins[1])
====
